---------------------------- MODULE Spec2Model ----------------------------
(***************************************************************************)
(* A model of the auction bot (joshsisto/bidder): the run driven by main() *)
(* (src/main.py, src/scraper/auction_bot.py), the market price lookup      *)
(* (src/scraper/price_finder.py) and the report generation                 *)
(* (src/analyzer/report_generator.py).                                     *)
(*                                                                         *)
(* Money is counted in cents (the code's floats 50.0, 97.5 are 5000, 9750).*)
(* A Python value is a record tagged by "kind": a missing dict key is      *)
(* Absent, None is NoneVal, a string is a Str record.  A string is kept as *)
(* what the code reads of it: the set of vocabulary words it contains, the *)
(* presence of a multi-piece pattern and its inch measurements in order.   *)
(*                                                                         *)
(* Specifications:                                                         *)
(*   Spec          the run of main()                                       *)
(*   SpecPrice     one awaited call of PriceFinder.get_best_market_price   *)
(*   SpecReport    one call of ReportGenerator.generate_excel_report       *)
(*   SpecMedian    the outlier-trimmed median of the search sources        *)
(*   SpecEstimate  PriceFinder.estimate_price_from_description             *)
(***************************************************************************)
EXTENDS Integers, Sequences, FiniteSets, TLC

VARIABLES
    \* ---- pure-function harness (SpecMedian, SpecEstimate)
    fn_pc,          \* "idle" | "ready" | "done"
    fn_in,          \* the argument
    fn_out,         \* the value returned
    \* ---- ReportGenerator.generate_excel_report (SpecReport)
    rg_pc,          \* "idle" | "loop" | "done"
    rg_openrouter,  \* config.OPENROUTER_ENABLED
    rg_entry,       \* the items as they were on entry
    rg_items,       \* items (the argument; the dicts are mutated in place)
    rg_i,           \* position of the for loop over items
    data,           \* data: the rows appended so far
    skipped_items,  \* skipped_items
    rg_report,      \* the workbook written: Absent, or its two sheets
    rg_error,       \* the exception the outer try caught, "none" if none
    rg_ret,         \* "pending" | "path" | "None"
    \* ---- PriceFinder.get_best_market_price (SpecPrice)
    pf_pc,          \* "idle" | "start" | "select" | "google" | "fallback" |
                    \* "after_google" | "after_amazon" | "done"
    pf_cfg,         \* config: OPENROUTER_ENABLED, ENABLE_AMAZON_SEARCH, USE_GOOGLE_API
    pf_item,        \* item (the dict is mutated in place)
    llm_results,    \* llm_results, NoneVal before the LLM stage
    search_query,   \* search_query
    amazon_query,   \* amazon_query
    google_price,   \* google_price
    amazon_price,   \* amazon_price
    amazon_prices,  \* prices of search_amazon_for_price
    search_session, \* self.search_session: "None" | "open"
    pf_calls,       \* the sources invoked so far, in order
    pf_exc,         \* where an exception was raised or an error was returned
    pf_raised,      \* an exception left get_best_market_price
    pf_ret,         \* the value returned, NoneVal before the return
    \* ---- main() and AuctionBot (Spec)
    pc,             \* where main() is: "idle" | "main" | "process_all_items" |
                    \* "setup_browser" | "analyze" | "get_item_urls" | "loop" |
                    \* "after_process" | "pricing" | "report" | "done"
    ENABLE_VPN_CHECK, \* config.ENABLE_VPN_CHECK
    current_ip,     \* what api.ipify.org answered to the last check_ip_safe,
                    \* "not_checked" before the first
    browser,        \* self.browser: "none" | "open" | "closed"
    cleanup_calls,  \* calls of cleanup_browser
    working_selectors, \* the roles a selector was found for, NoneVal before
    item_urls,      \* item_urls
    url_i,          \* position of the loop over item_urls
    items,          \* self.items
    extract_log,    \* for each URL the loop has visited, whether
                    \* extract_item_details returned an item
    progress_files, \* the snapshots save_json wrote, in order
    success,        \* what process_all_items returned, NoneVal before
    price_i,        \* position of the loop of determine_market_prices
    main_outcome    \* how main() ended, "running" before

fnVars == <<fn_pc, fn_in, fn_out>>
rgVars == <<rg_pc, rg_openrouter, rg_entry, rg_items, rg_i, data, skipped_items,
            rg_report, rg_error, rg_ret>>

pfVars == <<pf_pc, pf_cfg, pf_item, llm_results, search_query, amazon_query,
            google_price, amazon_price, amazon_prices, search_session,
            pf_calls, pf_exc, pf_raised, pf_ret>>

mainVars == <<pc, ENABLE_VPN_CHECK, current_ip, browser, cleanup_calls, working_selectors,
              item_urls, url_i, items, extract_log, progress_files,
              success, price_i, main_outcome>>

vars == <<fnVars, rgVars, pfVars, mainVars>>

-----------------------------------------------------------------------------
(* Bounds of the model *)

\* longest list of extracted prices
MaxPrices == 5
\* most inch measurements in one description
MaxInches == 2

-----------------------------------------------------------------------------
(* Python values *)

Absent == [kind |-> "absent"]
NoneVal == [kind |-> "none"]
\* a value that is not a string (a JSON number where a string is expected)
NonStr == [kind |-> "nonstr"]

Str(w, m, i) == [kind |-> "str", words |-> w, multiPiece |-> m, inches |-> i]
EmptyStr == Str({}, FALSE, <<>>)
IsStr(v) == v.kind = "str"
\* Python truthiness of a value that is a string, None or missing
Truthy(v) == v.kind = "nonstr" \/ (v.kind = "str" /\ v # EmptyStr)

Max(a, b) == IF a >= b THEN a ELSE b

-----------------------------------------------------------------------------
(* The parts of the state a specification does not use stay as they are here *)

FnIdle == fn_pc = "idle" /\ fn_in = NoneVal /\ fn_out = NoneVal

RgIdle ==
    /\ rg_pc = "idle"
    /\ rg_openrouter = FALSE
    /\ rg_entry = <<>>
    /\ rg_items = <<>>
    /\ rg_i = 0
    /\ data = <<>>
    /\ skipped_items = 0
    /\ rg_report = Absent
    /\ rg_error = "none"
    /\ rg_ret = "pending"

PfIdle ==
    /\ pf_pc = "idle"
    /\ pf_cfg = [OPENROUTER_ENABLED |-> FALSE, ENABLE_AMAZON_SEARCH |-> FALSE,
                 USE_GOOGLE_API |-> FALSE]
    /\ pf_item = NoneVal
    /\ llm_results = NoneVal
    /\ search_query = NoneVal
    /\ amazon_query = NoneVal
    /\ google_price = NoneVal
    /\ amazon_price = NoneVal
    /\ amazon_prices = <<>>
    /\ search_session = "None"
    /\ pf_calls = <<>>
    /\ pf_exc = {}
    /\ pf_raised = FALSE
    /\ pf_ret = NoneVal

MainIdle ==
    /\ pc = "idle"
    /\ ENABLE_VPN_CHECK = FALSE
    /\ current_ip = "not_checked"
    /\ browser = "none"
    /\ cleanup_calls = 0
    /\ working_selectors = NoneVal
    /\ item_urls = <<>>
    /\ url_i = 0
    /\ items = <<>>
    /\ extract_log = <<>>
    /\ progress_files = <<>>
    /\ success = NoneVal
    /\ price_i = 0
    /\ main_outcome = "running"

-----------------------------------------------------------------------------
(* list.sort() *)

RECURSIVE InsertSorted(_, _)
InsertSorted(x, s) ==
    IF s = <<>> THEN <<x>>
    ELSE IF x <= Head(s) THEN <<x>> \o s
    ELSE <<Head(s)>> \o InsertSorted(x, Tail(s))

RECURSIVE sort(_)
sort(s) == IF s = <<>> THEN <<>> ELSE InsertSorted(Head(s), sort(Tail(s)))

-----------------------------------------------------------------------------
(* price_finder.py: the median of the extracted prices.  The same lines    *)
(* close search_google_for_price (237-248), _fallback_google_search        *)
(* (119-129) and search_amazon_for_price (340-351).                        *)

\* mutant: the element below the middle is taken (prices[(len - 1) // 2])
median_price_lower(prices) ==
    LET trimmed == IF Len(prices) > 3
                   THEN SubSeq(sort(prices), 2, Len(prices) - 1)
                   ELSE prices
        sorted == sort(trimmed)
    IN  sorted[((Len(sorted) - 1) \div 2) + 1]

\* mutant: the outliers are dropped without sorting first
median_price_unsorted_trim(prices) ==
    LET trimmed == IF Len(prices) > 3
                   THEN SubSeq(prices, 2, Len(prices) - 1)
                   ELSE prices
        sorted == sort(trimmed)
    IN  sorted[(Len(sorted) \div 2) + 1]

\* if prices: ... return median_price   (prices is not empty)
median_price(prices) ==
    LET trimmed == IF Len(prices) > 3
                   THEN SubSeq(sort(prices), 2, Len(prices) - 1)
                   ELSE prices
        sorted == sort(trimmed)
    IN  sorted[(Len(sorted) \div 2) + 1]

-----------------------------------------------------------------------------
(* price_finder.py: estimate_price_from_description *)

high_value_keywords == {"premium", "professional", "high-end", "luxury",
                        "gold", "platinum", "diamond"}
mid_value_keywords == {"quality", "leather", "wireless", "bluetooth",
                       "digital", "stainless"}
low_value_keywords == {"basic", "simple", "mini", "small", "plastic"}

\* the table the estimator defines and never reads
category_base_prices ==
    [c \in {"electronics", "furniture", "appliances", "tools", "jewelry",
            "art", "clothing", "sports", ""} |->
        CASE c = "electronics" -> 10000
          [] c = "furniture" -> 12000
          [] c = "appliances" -> 15000
          [] c = "tools" -> 8000
          [] c = "jewelry" -> 20000
          [] c = "art" -> 15000
          [] c = "clothing" -> 4000
          [] c = "sports" -> 7500
          [] OTHER -> 5000]

\* base_price = 50.0
DefaultBasePrice == 5000
\* max(base_price, 10.0)
MinEstimate == 1000
\* return 25.0  (the except branches of the estimator and of the chain)
DefaultFallbackPrice == 2500
\* if size > 32
SizeThreshold == 32

\* mutant: low-value keywords cost 50.0 each and the unfloored base is returned
estimate_unfloored(description) ==
    IF ~IsStr(description) THEN DefaultFallbackPrice
    ELSE
    LET w == description.words
        b1 == DefaultBasePrice
                + 5000 * Cardinality(w \cap high_value_keywords)
                + 1500 * Cardinality(w \cap mid_value_keywords)
                - 5000 * Cardinality(w \cap low_value_keywords)
        b2 == IF description.multiPiece THEN (b1 * 3) \div 2 ELSE b1
    IN  b2

estimate_price_from_description(description) ==
    IF ~IsStr(description)
    THEN DefaultFallbackPrice       \* description.lower() raises: except branch
    ELSE
    LET w == description.words
        \* one bonus or penalty per keyword found in the description
        b1 == DefaultBasePrice
                + 5000 * Cardinality(w \cap high_value_keywords)
                + 1500 * Cardinality(w \cap mid_value_keywords)
                - 500 * Cardinality(w \cap low_value_keywords)
        \* 'set of N' or 'N piece': base_price *= 1.5
        b2 == IF description.multiPiece THEN (b1 * 3) \div 2 ELSE b1
        \* re.search: the first inch measurement of the description
        b3 == IF Len(description.inches) > 0
                 /\ description.inches[1].size > SizeThreshold
              THEN b2 + (description.inches[1].size - SizeThreshold) * 500
              ELSE b2
    IN  Max(b3, MinEstimate)

-----------------------------------------------------------------------------
(* Inputs of the pure-function specifications *)

PriceValues == {500, 1000, 2000, 100000}

RECURSIVE SeqsUpTo(_, _)
SeqsUpTo(S, n) ==
    IF n = 0 THEN {<<>>}
    ELSE LET shorter == SeqsUpTo(S, n - 1)
         IN  shorter \cup {Append(s, x) : s \in {t \in shorter : Len(t) = n - 1}, x \in S}

PriceLists == SeqsUpTo(PriceValues, MaxPrices) \ {<<>>}

\* an inch measurement: its number, written 55" (quoted) or 55inch
InchTokens == [size : {20, 32, 55}, quoted : BOOLEAN]

EstimateWords == low_value_keywords \cup {"premium", "high-end", "quality"}

Descriptions ==
    {Str(w, m, i) : w \in SUBSET EstimateWords, m \in BOOLEAN,
                    i \in SeqsUpTo(InchTokens, MaxInches)}

-----------------------------------------------------------------------------
(* SpecMedian: a search source returns the median of a list of prices *)

InitMedian ==
    /\ fn_pc = "ready"
    /\ fn_in \in PriceLists
    /\ fn_out = NoneVal
    /\ RgIdle
    /\ PfIdle
    /\ MainIdle

ReturnMedian ==
    /\ fn_pc = "ready"
    /\ fn_out' = median_price(fn_in)
    /\ fn_pc' = "done"
    /\ UNCHANGED fn_in
    /\ UNCHANGED <<rgVars, pfVars, mainVars>>

NextMedian == ReturnMedian

SpecMedian == InitMedian /\ [][NextMedian]_vars

-----------------------------------------------------------------------------
(* SpecEstimate: the keyword estimator applied to a description *)

InitEstimate ==
    /\ fn_pc = "ready"
    /\ fn_in \in Descriptions
    /\ fn_out = NoneVal
    /\ RgIdle
    /\ PfIdle
    /\ MainIdle

ReturnEstimate ==
    /\ fn_pc = "ready"
    /\ fn_out' = estimate_price_from_description(fn_in)
    /\ fn_pc' = "done"
    /\ UNCHANGED fn_in
    /\ UNCHANGED <<rgVars, pfVars, mainVars>>

NextEstimate == ReturnEstimate

SpecEstimate == InitEstimate /\ [][NextEstimate]_vars

-----------------------------------------------------------------------------
(* report_generator.py: ReportGenerator.generate_excel_report              *)
(*                                                                         *)
(* An item is the dict fields the report computes with; the fields it only *)
(* copies into the row (description, timeRemaining, itemUrl, images,       *)
(* ocr_text) are left out.  lotNumber identifies the item.                 *)

\* most items in the list handed to the report
MaxReportItems == 2

Bool(b) == [kind |-> "bool", val |-> b]
Num(n) == [kind |-> "num", val |-> n]

\* item.get('skip_for_processing', False)
get_skip_for_processing(item) ==
    IF item.skip_for_processing = Absent THEN FALSE ELSE item.skip_for_processing.val

\* item.get(key, 0) or 0
get_number_or_0(v) == IF v.kind = "num" THEN v.val ELSE 0

\* llm_info.get('product_type', '') in ['Unknown', ''] or
\* llm_info.get('brand', '') in ['Unknown', '']) and 'llm_product_info' in item
llm_could_not_identify(item) ==
    /\ item.llm_product_info # Absent
    /\ \/ item.llm_product_info.product_type \in {"Unknown", ""}
       \/ item.llm_product_info.brand \in {"Unknown", ""}

\* mutant: the profit is clamped at zero
potential_profit_clamped(market_price, current_bid) ==
    IF market_price > 0 THEN Max(0, market_price - current_bid) ELSE 0

\* potential_profit = market_price - current_bid if market_price > 0 else 0
potential_profit_of(market_price, current_bid) ==
    IF market_price > 0 THEN market_price - current_bid ELSE 0

Abs(a) == IF a < 0 THEN -a ELSE a

RECURSIVE GCD(_, _)
GCD(a, b) == IF b = 0 THEN a ELSE GCD(b, a % b)

\* the number num / den (den > 0) in lowest terms
Frac(num, den) ==
    LET g == GCD(Abs(num), den)
    IN  [kind |-> "frac", num |-> num \div g, den |-> den \div g]

\* a / b of two non-negative-denominator numbers, or ZeroDivisionError
Divide(a, b) ==
    IF b = 0 THEN [kind |-> "ZeroDivisionError"] ELSE Frac(a, b)

\* q * n
Times(q, n) == IF q.kind = "frac" THEN Frac(q.num * n, q.den) ELSE q

ZeroMargin == Frac(0, 1)

\* mutant: the bid is not tested before dividing by it
profit_margin_unguarded(market_price, current_bid, potential_profit) ==
    IF market_price > 0
    THEN Times(Divide(potential_profit, current_bid), 100)
    ELSE ZeroMargin

\* profit_margin = 0
\* if market_price > 0 and current_bid > 0:
\*     profit_margin = (potential_profit / current_bid) * 100
profit_margin_of(market_price, current_bid, potential_profit) ==
    IF market_price > 0 /\ current_bid > 0
    THEN Times(Divide(potential_profit, current_bid), 100)
    ELSE ZeroMargin

\* the row appended to data for an item
report_row(item) ==
    LET current_bid == get_number_or_0(item.current_bid_float)
        market_price == get_number_or_0(item.market_price)
        potential_profit == potential_profit_of(market_price, current_bid)
    IN  [lotNumber |-> item.lotNumber,
         current_bid |-> current_bid,
         market_price |-> market_price,
         potential_profit |-> potential_profit,
         profit_margin |-> profit_margin_of(market_price, current_bid, potential_profit)]

\* df.sort_values(by='Potential Profit', ascending=False); rows of equal
\* profit are kept in the order of data
RECURSIVE InsertByProfit(_, _)
InsertByProfit(r, s) ==
    IF s = <<>> THEN <<r>>
    ELSE IF r.potential_profit > Head(s).potential_profit THEN <<r>> \o s
    ELSE <<Head(s)>> \o InsertByProfit(r, Tail(s))

RECURSIVE sort_values(_)
sort_values(rows) ==
    IF rows = <<>> THEN <<>>
    ELSE InsertByProfit(rows[Len(rows)], sort_values(SubSeq(rows, 1, Len(rows) - 1)))

\* mutant: the exception leaves generate_excel_report
report_reraise(error) == "raised"

\* lines 275-279: except Exception: log, return None
report_except(error) == "None"

BidValues == {Num(0), Num(5000), Num(20000)}
MarketPrices == {Absent, Num(0), Num(15000)}
LLMInfos == {Absent,
             [product_type |-> "Laptop", brand |-> "Unknown"],
             [product_type |-> "Laptop", brand |-> "Acme"]}

ReportItemFields ==
    [skip_for_processing : {Absent, Bool(TRUE)},
     llm_product_info : LLMInfos,
     current_bid_float : BidValues,
     market_price : MarketPrices]

\* the item lists handed to the report: item k carries lotNumber k
ReportItemLists ==
    UNION {{[k \in 1..n |->
                [lotNumber |-> k,
                 skip_for_processing |-> f[k].skip_for_processing,
                 llm_product_info |-> f[k].llm_product_info,
                 current_bid_float |-> f[k].current_bid_float,
                 market_price |-> f[k].market_price]] :
             f \in [1..n -> ReportItemFields]} : n \in 0..MaxReportItems}

InitReport ==
    /\ rg_pc = "loop"
    /\ rg_openrouter \in BOOLEAN
    /\ rg_entry \in ReportItemLists
    /\ rg_items = rg_entry
    /\ rg_i = 1
    /\ data = <<>>
    /\ skipped_items = 0
    /\ rg_report = Absent
    /\ rg_error = "none"
    /\ rg_ret = "pending"
    /\ FnIdle
    /\ PfIdle
    /\ MainIdle

\* one pass of "for item in items" (lines 33-92)
ReportItem ==
    /\ rg_pc = "loop"
    /\ rg_i <= Len(rg_items)
    /\ LET item == rg_items[rg_i]
           row == report_row(item)
       IN  IF /\ rg_openrouter
              /\ ~get_skip_for_processing(item)
              /\ llm_could_not_identify(item)
           THEN \* skipped here: counted, flagged, no row
                /\ skipped_items' = skipped_items + 1
                /\ rg_items' = [rg_items EXCEPT ![rg_i].skip_for_processing = Bool(TRUE)]
                /\ rg_i' = rg_i + 1
                /\ UNCHANGED <<rg_pc, data, rg_error, rg_ret>>
           ELSE IF row.profit_margin.kind # "frac"
           THEN \* an exception in the loop: except Exception, return None
                /\ rg_error' = row.profit_margin.kind
                /\ rg_ret' = report_except(row.profit_margin.kind)
                /\ rg_pc' = "done"
                /\ UNCHANGED <<rg_items, rg_i, data, skipped_items>>
           ELSE /\ data' = Append(data, row)
                /\ rg_i' = rg_i + 1
                /\ UNCHANGED <<rg_pc, rg_items, skipped_items, rg_error, rg_ret>>
    /\ UNCHANGED <<rg_openrouter, rg_entry, rg_report>>
    /\ UNCHANGED <<fnVars, pfVars, mainVars>>

\* after the loop (lines 94-279): DataFrame, sort, the two sheets, return.
\* written is whether pd.ExcelWriter and the formatting went through.
ReportWrite(written) ==
    /\ rg_pc = "loop"
    /\ rg_i > Len(rg_items)
    /\ IF data = <<>>
       THEN \* a DataFrame of no rows has no column 'Potential Profit'
            /\ rg_error' = "KeyError"
            /\ rg_ret' = report_except("KeyError")
            /\ UNCHANGED rg_report
       ELSE IF written
       THEN LET df == sort_values(data)
            IN  /\ rg_report' = [kind |-> "workbook",
                                 Opportunities |-> df,
                                 Metadata |-> [total_items |-> Len(df),
                                               top_profit_item |-> df[1].lotNumber,
                                               items_skipped |-> skipped_items]]
                /\ rg_ret' = "path"
                /\ UNCHANGED rg_error
       ELSE /\ rg_error' = "OSError"
            /\ rg_ret' = report_except("OSError")
            /\ UNCHANGED rg_report
    /\ rg_pc' = "done"
    /\ UNCHANGED <<rg_openrouter, rg_entry, rg_items, rg_i, data, skipped_items>>
    /\ UNCHANGED <<fnVars, pfVars, mainVars>>

NextReport ==
    \/ ReportItem
    \/ \E written \in BOOLEAN : ReportWrite(written)

SpecReport == InitReport /\ [][NextReport]_vars

-----------------------------------------------------------------------------
(* llm_query_generator.py: the result of LLMQueryGenerator.generate_search_query *)

\* return {"error": ...}: every failure of the LLM stage (HTTP non-200, no
\* JSON, invalid JSON, any exception)
LLMError == [kind |-> "error"]

\* mutant: the flag looks at the product fields only, not at the queries
process_llm_response_fields_only(d) ==
    [kind |-> "result",
     product_type |-> d.identified_product_type,
     brand |-> d.brand,
     model |-> d.model_name_number,
     google_query |-> d.google_search_query,
     amazon_query |-> d.amazon_search_query,
     insufficient_identification |->
         \/ d.identified_product_type \in {"Unknown", "unclear", ""}
         \/ d.brand \in {"Unknown", "unclear", ""}
         \/ d.model_name_number \in {"Unknown", "unclear", ""}]

\* _process_llm_response, from "data = json.loads(json_str)" on
process_llm_response(d) ==
    LET insufficient ==
            \/ d.identified_product_type \in {"Unknown", "unclear", ""}
            \/ d.brand \in {"Unknown", "unclear", ""}
            \/ d.model_name_number \in {"Unknown", "unclear", ""}
            \/ ~Truthy(d.google_search_query)
            \/ ~Truthy(d.amazon_search_query)
    IN  [kind |-> "result",
         product_type |-> d.identified_product_type,
         brand |-> d.brand,
         model |-> d.model_name_number,
         google_query |-> d.google_search_query,
         amazon_query |-> d.amazon_search_query,
         insufficient_identification |-> insufficient]

QGoogle == Str({"acme", "m1", "laptop"}, FALSE, <<>>)
QAmazon == Str({"acme", "m1"}, FALSE, <<>>)

\* the JSON objects the LLM answers with
LLMData ==
    [identified_product_type : {"Unknown", "Laptop"},
     brand : {"Acme"},
     model_name_number : {"", "M1"},
     google_search_query : {EmptyStr, QGoogle, NonStr},
     amazon_search_query : {EmptyStr, QAmazon}]

LLMResults == {LLMError} \cup {process_llm_response(d) : d \in LLMData}

\* the JSON objects _process_llm_response is given on its own
LLMResponses ==
    [identified_product_type : {"Unknown", "unclear", "", "Laptop"},
     brand : {"Unknown", "unclear", "", "Acme"},
     model_name_number : {"Unknown", "unclear", "", "M1"},
     google_search_query : {EmptyStr, QGoogle, NonStr},
     amazon_search_query : {EmptyStr, QAmazon}]

InitLLM ==
    /\ fn_pc = "ready"
    /\ fn_in \in LLMResponses
    /\ fn_out = NoneVal
    /\ RgIdle
    /\ PfIdle
    /\ MainIdle

ReturnLLM ==
    /\ fn_pc = "ready"
    /\ fn_out' = process_llm_response(fn_in)
    /\ fn_pc' = "done"
    /\ UNCHANGED fn_in
    /\ UNCHANGED <<rgVars, pfVars, mainVars>>

NextLLM == ReturnLLM

SpecLLM == InitLLM /\ [][NextLLM]_vars

-----------------------------------------------------------------------------
(* price_finder.py: PriceFinder.get_best_market_price and its sources *)

\* confidence > 0.6, the confidence counted in tenths
ConfidenceThreshold == 6
\* price < 10000
PriceCap == 1000000

\* words that [^a-zA-Z0-9\s] breaks into pieces that are no keyword
PunctuatedWords == {"high-end"}

\* lines 143-155 and 261-273: the query with every character that is not
\* alphanumeric or white space replaced by a space (55" loses its inch sign)
clean_query(query) ==
    Str(query.words \ PunctuatedWords, query.multiPiece,
        SelectSeq(query.inches, LAMBDA t : ~t.quoted))

\* google_price and google_price > 0
is_positive(price) == price.kind = "num" /\ price.val > 0

\* the prices a search source keeps of those its patterns match
positive_prices(raw) == SelectSeq(raw, LAMBDA x : x > 0)
capped_prices(raw) == SelectSeq(raw, LAMBDA x : x > 0 /\ x < PriceCap)

\* if prices: return median_price / else: return None
median_or_none(prices) ==
    IF prices # <<>> THEN Num(median_price(prices)) ELSE NoneVal

\* mutant: the rich query is preferred to the final query
traditional_query_rich_first(item) ==
    IF Truthy(item.rich_search_query) THEN item.rich_search_query
    ELSE IF Truthy(item.final_search_query) THEN item.final_search_query
    ELSE IF Truthy(item.enhanced_description) THEN item.enhanced_description
    ELSE IF item.description = Absent THEN EmptyStr
    ELSE item.description

\* lines 479-489: the query of the traditional methods
traditional_query(item) ==
    IF Truthy(item.final_search_query) THEN item.final_search_query
    ELSE IF Truthy(item.rich_search_query) THEN item.rich_search_query
    ELSE IF Truthy(item.enhanced_description) THEN item.enhanced_description
    ELSE IF item.description = Absent THEN EmptyStr
    ELSE item.description

\* lines 498-506: f"{search_query} {category}" under a confident category
with_category(enabled, item, query) ==
    IF enabled \/ item.product_info = Absent THEN query
    ELSE IF /\ item.product_info.confidence > ConfidenceThreshold
            /\ item.product_info.category # ""
            /\ item.product_info.category \notin query.words
         THEN [query EXCEPT !.words = @ \cup {item.product_info.category}]
         ELSE query

\* mutant: the catch-all of the chain is missing and the exception leaves
chain_reraise == [ret |-> NoneVal, raised |-> TRUE]

\* lines 535-538: except Exception: return 25.0
chain_except == [ret |-> Num(DefaultFallbackPrice), raised |-> FALSE]

\* mutant: the e-commerce search runs whatever the web search returned
amazon_wanted_always(cfg, gprice) == cfg.ENABLE_AMAZON_SEARCH

\* line 516: (not google_price or google_price == 0) and ENABLE_AMAZON_SEARCH
amazon_wanted(cfg, gprice) ==
    (IF gprice = NoneVal THEN TRUE ELSE gprice.val = 0) /\ cfg.ENABLE_AMAZON_SEARCH

\* mutant: the flag is stored but the lookup goes on with the LLM queries
llm_short_circuit_missing(res) == FALSE

\* line 456: llm_results.get('insufficient_identification', False)
llm_short_circuit(res) == res.insufficient_identification

QDesc == Str({"lamp"}, FALSE, <<>>)
QEnh == Str({"lamp", "brass", "small"}, FALSE, <<>>)
QRich == Str({"lamp", "gold", "electronics"}, FALSE, <<>>)
QFinal == Str({"lamp", "high-end"}, TRUE, <<[size |-> 55, quoted |-> TRUE]>>)

ProductInfos == {Absent,
                 [category |-> "electronics", confidence |-> 9],
                 [category |-> "electronics", confidence |-> 5]}

PriceItems ==
    [description : {EmptyStr, QDesc},
     enhanced_description : {Absent, QEnh},
     rich_search_query : {Absent, QRich},
     final_search_query : {Absent, QFinal},
     product_info : ProductInfos,
     llm_product_info : {Absent},
     skip_for_processing : {Absent},
     used_search_query : {Absent}]

\* the prices the patterns of a source match in the page or answer it gets
RawPriceLists == {<<>>, <<0>>, <<1500000>>, <<3000, 1000>>,
                  <<2000, 500, 100000, 1000>>}

InitPrice ==
    /\ pf_pc = "start"
    /\ pf_cfg \in [OPENROUTER_ENABLED : BOOLEAN, ENABLE_AMAZON_SEARCH : BOOLEAN,
                   USE_GOOGLE_API : BOOLEAN]
    /\ pf_item \in PriceItems
    /\ llm_results = NoneVal
    /\ search_query = NoneVal
    /\ amazon_query = NoneVal
    /\ google_price = NoneVal
    /\ amazon_price = NoneVal
    /\ amazon_prices = <<>>
    /\ search_session = "None"
    /\ pf_calls = <<>>
    /\ pf_exc = {}
    /\ pf_raised = FALSE
    /\ pf_ret = NoneVal
    /\ FnIdle
    /\ RgIdle
    /\ MainIdle

\* lines 441-476: the LLM stage; res is what generate_search_query returns
TryLLMQuery(res) ==
    /\ pf_pc = "start"
    /\ pf_cfg.OPENROUTER_ENABLED
    /\ llm_results' = res
    /\ pf_calls' = Append(pf_calls, "llm")
    /\ IF res.kind = "error"
       THEN /\ pf_exc' = pf_exc \cup {"llm"}
            /\ pf_pc' = "select"
            /\ UNCHANGED <<pf_item, search_query, amazon_query, pf_ret>>
       ELSE LET info == [product_type |-> res.product_type, brand |-> res.brand,
                         model |-> res.model]
            IN  IF llm_short_circuit(res)
                THEN /\ pf_item' = [pf_item EXCEPT !.llm_product_info = info,
                                                   !.skip_for_processing = Bool(TRUE)]
                     /\ pf_ret' = Num(0)
                     /\ pf_pc' = "done"
                     /\ UNCHANGED <<search_query, amazon_query, pf_exc>>
                ELSE /\ pf_item' = [pf_item EXCEPT !.llm_product_info = info]
                     /\ amazon_query' = res.amazon_query
                     /\ search_query' = IF Truthy(res.google_query)
                                        THEN res.google_query ELSE search_query
                     /\ pf_pc' = "select"
                     /\ UNCHANGED <<pf_exc, pf_ret>>
    /\ UNCHANGED <<pf_cfg, google_price, amazon_price, amazon_prices,
                   search_session, pf_raised>>
    /\ UNCHANGED <<fnVars, rgVars, mainVars>>

\* lines 478-509: the query of the traditional methods when the LLM gave
\* none, the category, used_search_query
SelectQuery ==
    /\ \/ pf_pc = "select"
       \/ pf_pc = "start" /\ ~pf_cfg.OPENROUTER_ENABLED
    /\ LET q1 == IF Truthy(search_query) THEN search_query
                 ELSE traditional_query(pf_item)
       IN  IF ~Truthy(q1)
           THEN /\ pf_ret' = Num(0)
                /\ pf_pc' = "done"
                /\ search_query' = q1
                /\ UNCHANGED <<pf_item, pf_exc, pf_raised>>
           ELSE IF ~pf_cfg.OPENROUTER_ENABLED /\ ~IsStr(q1)
           THEN \* search_query.lower() raises
                /\ pf_exc' = pf_exc \cup {"chain"}
                /\ pf_ret' = chain_except.ret
                /\ pf_raised' = chain_except.raised
                /\ pf_pc' = "done"
                /\ search_query' = q1
                /\ UNCHANGED pf_item
           ELSE LET q2 == with_category(pf_cfg.OPENROUTER_ENABLED, pf_item, q1)
                IN  /\ search_query' = q2
                    /\ pf_item' = [pf_item EXCEPT !.used_search_query = q2]
                    /\ pf_pc' = "google"
                    /\ UNCHANGED <<pf_exc, pf_raised, pf_ret>>
    /\ UNCHANGED <<pf_cfg, llm_results, amazon_query, google_price, amazon_price,
                   amazon_prices, search_session, pf_calls>>
    /\ UNCHANGED <<fnVars, rgVars, mainVars>>

GoogleOutcomes ==
    {[kind |-> k] : k \in {"non200", "request_exception", "no_items", "exception"}}
        \cup {[kind |-> "items", raw |-> r] : r \in RawPriceLists}

\* lines 139-255: search_google_for_price up to its return or its call of
\* _fallback_google_search; out is what the search API does
SearchGoogle(out) ==
    /\ pf_pc = "google"
    /\ pf_calls' = Append(pf_calls, "web")
    /\ IF ~IsStr(search_query)
       THEN \* re.sub raises TypeError: except Exception, return None
            /\ pf_exc' = pf_exc \cup {"google"}
            /\ google_price' = NoneVal
            /\ pf_pc' = "after_google"
            /\ UNCHANGED search_session
       ELSE IF ~pf_cfg.USE_GOOGLE_API
       THEN /\ pf_pc' = "fallback"
            /\ UNCHANGED <<pf_exc, google_price, search_session>>
       ELSE /\ search_session' = "open"
            /\ CASE out.kind = "non200" ->
                      /\ pf_pc' = "fallback"
                      /\ UNCHANGED <<pf_exc, google_price>>
                 [] out.kind = "request_exception" ->
                      /\ pf_exc' = pf_exc \cup {"google_api"}
                      /\ pf_pc' = "fallback"
                      /\ UNCHANGED google_price
                 [] out.kind = "no_items" ->
                      /\ google_price' = NoneVal
                      /\ pf_pc' = "after_google"
                      /\ UNCHANGED pf_exc
                 [] out.kind = "exception" ->
                      /\ pf_exc' = pf_exc \cup {"google"}
                      /\ google_price' = NoneVal
                      /\ pf_pc' = "after_google"
                 [] out.kind = "items" ->
                      /\ google_price' = median_or_none(positive_prices(out.raw))
                      /\ pf_pc' = "after_google"
                      /\ UNCHANGED pf_exc
    /\ UNCHANGED <<pf_cfg, pf_item, llm_results, search_query, amazon_query,
                   amazon_price, amazon_prices, pf_raised, pf_ret>>
    /\ UNCHANGED <<fnVars, rgVars, mainVars>>

PageOutcomes ==
    {[kind |-> k] : k \in {"non200", "exception"}}
        \cup {[kind |-> "page", raw |-> r] : r \in RawPriceLists}

\* lines 55-137: _fallback_google_search, whose value search_google_for_price
\* returns; out is what the search results page does
FallbackGoogleSearch(out) ==
    /\ pf_pc = "fallback"
    /\ pf_calls' = Append(pf_calls, "fallback")
    /\ search_session' = "open"
    /\ CASE out.kind = "non200" ->
              /\ google_price' = NoneVal
              /\ UNCHANGED pf_exc
         [] out.kind = "exception" ->
              /\ pf_exc' = pf_exc \cup {"fallback"}
              /\ google_price' = NoneVal
         [] out.kind = "page" ->
              /\ google_price' = median_or_none(capped_prices(out.raw))
              /\ UNCHANGED pf_exc
    /\ pf_pc' = "after_google"
    /\ UNCHANGED <<pf_cfg, pf_item, llm_results, search_query, amazon_query,
                   amazon_price, amazon_prices, pf_raised, pf_ret>>
    /\ UNCHANGED <<fnVars, rgVars, mainVars>>

\* lines 514-520 and 257-360: search_amazon_for_price; out is what the
\* retail site does
SearchAmazon(out) ==
    /\ pf_pc = "after_google"
    /\ amazon_wanted(pf_cfg, google_price)
    /\ LET amazon_search_query == IF Truthy(amazon_query) THEN amazon_query
                                  ELSE search_query
       IN  IF ~IsStr(amazon_search_query)
           THEN \* re.sub raises TypeError: except Exception, return None
                /\ pf_exc' = pf_exc \cup {"amazon"}
                /\ amazon_price' = NoneVal
                /\ pf_calls' = Append(pf_calls, "amazon")
                /\ UNCHANGED <<amazon_prices, search_session>>
           ELSE /\ search_session' = "open"
                /\ CASE out.kind = "non200" ->
                          /\ amazon_price' = NoneVal
                          /\ pf_calls' = Append(pf_calls, "amazon")
                          /\ UNCHANGED <<pf_exc, amazon_prices>>
                     [] out.kind = "exception" ->
                          /\ pf_exc' = pf_exc \cup {"amazon"}
                          /\ amazon_price' = NoneVal
                          /\ pf_calls' = Append(pf_calls, "amazon")
                          /\ UNCHANGED amazon_prices
                     [] out.kind = "page" ->
                          /\ amazon_prices' = capped_prices(out.raw)
                          /\ IF amazon_prices' # <<>>
                             THEN /\ amazon_price' = Num(median_price(amazon_prices'))
                                  /\ pf_calls' = Append(pf_calls, "amazon")
                             ELSE \* return self.estimate_price_from_description(clean_query)
                                  /\ amazon_price' = Num(estimate_price_from_description(
                                                            clean_query(amazon_search_query)))
                                  /\ pf_calls' = pf_calls \o <<"amazon", "estimate">>
                          /\ UNCHANGED pf_exc
    /\ pf_pc' = "after_amazon"
    /\ UNCHANGED <<pf_cfg, pf_item, llm_results, search_query, amazon_query,
                   google_price, pf_raised, pf_ret>>
    /\ UNCHANGED <<fnVars, rgVars, mainVars>>

\* lines 524-534: the best available price, the keyword estimate at last
UseBestPrice ==
    /\ \/ pf_pc = "after_amazon"
       \/ pf_pc = "after_google" /\ ~amazon_wanted(pf_cfg, google_price)
    /\ IF is_positive(google_price)
       THEN /\ pf_ret' = google_price
            /\ UNCHANGED <<pf_calls, pf_exc, pf_raised>>
       ELSE IF is_positive(amazon_price)
       THEN /\ pf_ret' = amazon_price
            /\ UNCHANGED <<pf_calls, pf_exc, pf_raised>>
       ELSE IF ~IsStr(search_query)
       THEN \* search_query[:50] raises TypeError: the catch-all of the chain
            /\ pf_exc' = pf_exc \cup {"chain"}
            /\ pf_ret' = chain_except.ret
            /\ pf_raised' = chain_except.raised
            /\ UNCHANGED pf_calls
       ELSE /\ pf_ret' = Num(estimate_price_from_description(search_query))
            /\ pf_calls' = Append(pf_calls, "estimate")
            /\ UNCHANGED <<pf_exc, pf_raised>>
    /\ pf_pc' = "done"
    /\ UNCHANGED <<pf_cfg, pf_item, llm_results, search_query, amazon_query,
                   google_price, amazon_price, amazon_prices, search_session>>
    /\ UNCHANGED <<fnVars, rgVars, mainVars>>

NextPrice ==
    \/ \E res \in LLMResults : TryLLMQuery(res)
    \/ SelectQuery
    \/ \E out \in GoogleOutcomes : SearchGoogle(out)
    \/ \E out \in PageOutcomes : FallbackGoogleSearch(out)
    \/ \E out \in PageOutcomes : SearchAmazon(out)
    \/ UseBestPrice

SpecPrice == InitPrice /\ [][NextPrice]_vars

-----------------------------------------------------------------------------
(* main() and AuctionBot: one run of the program (Spec) *)

\* the most item URLs the auction page offers in the model
MaxUrls == 2

\* config.MAX_ITEMS
MAX_ITEMS == 100

\* what api.ipify.org answers: the home IP, another IP, or no answer
IpAnswers == {"home", "other", "error"}

\* mutant: an IP that cannot be determined counts as safe
check_ip_safe_unless_home(answer) == answer # "home"

\* AuctionBot.check_ip_safe
check_ip_safe(answer) == answer = "other"

\* the keys of AuctionBot.selectors that get_item_urls reads, and one it
\* does not
SelectorRoles == {"items", "link", "description"}

\* what analyze_page_structure returns: the roles a selector matched for,
\* or None after an exception
AnalyzeOutcomes == {NoneVal} \cup {[kind |-> "dict", roles |-> r] : r \in SUBSET SelectorRoles}

\* not working_selectors
selectors_falsy(ws) == IF ws = NoneVal THEN TRUE ELSE ws.roles = {}

\* mutant: the links are looked for whatever selectors were found
get_item_urls_unchecked(ws, n, raises) ==
    IF selectors_falsy(ws) THEN <<>>
    ELSE IF raises THEN <<>>
    ELSE [k \in 1..n |-> k]

\* ItemExtractor.get_item_urls: [] unless both the items and the link
\* selector work and no exception is raised, else the n distinct links
get_item_urls(ws, n, raises) ==
    IF selectors_falsy(ws) THEN <<>>
    ELSE IF ~({"items", "link"} \subseteq ws.roles) THEN <<>>
    ELSE IF raises THEN <<>>
    ELSE [k \in 1..n |-> k]

\* mutant: every URL of the page is kept
limit_to_all_items(urls) == urls

\* item_urls[:MAX_ITEMS]
limit_to_max_items(urls) ==
    IF Len(urls) > MAX_ITEMS THEN SubSeq(urls, 1, MAX_ITEMS) ELSE urls

\* the texts of the current-bid element, as characters
BidTexts ==
    { <<>>,
      <<"$", "5", ".", "0", "0">>,
      <<"$", "1", ",", "2", "0", "0", ".", "5", "0">>,
      <<"N", "/", "A">> }

Digits == {"0", "1", "2", "3", "4", "5", "6", "7", "8", "9"}

DigitValue(c) ==
    CASE c = "0" -> 0 [] c = "1" -> 1 [] c = "2" -> 2 [] c = "3" -> 3
      [] c = "4" -> 4 [] c = "5" -> 5 [] c = "6" -> 6 [] c = "7" -> 7
      [] c = "8" -> 8 [] c = "9" -> 9

\* str.replace(ch, '')
RECURSIVE str_remove(_, _)
str_remove(s, ch) ==
    IF s = <<>> THEN <<>>
    ELSE IF Head(s) = ch THEN str_remove(Tail(s), ch)
    ELSE <<Head(s)>> \o str_remove(Tail(s), ch)

\* the value of a run of digits
RECURSIVE digits_value(_)
digits_value(s) ==
    IF s = <<>> THEN 0 ELSE digits_value(SubSeq(s, 1, Len(s) - 1)) * 10 + DigitValue(s[Len(s)])

\* float(s) for a decimal literal with at most two decimals, in cents;
\* ValueError for any other text
float_of(s) ==
    LET dots == {k \in 1..Len(s) : s[k] = "."}
        dot == IF dots = {} THEN Len(s) + 1 ELSE CHOOSE k \in dots : TRUE
        whole == SubSeq(s, 1, dot - 1)
        decimals == SubSeq(s, dot + 1, Len(s))
        wellFormed ==
            /\ Cardinality(dots) <= 1
            /\ \A k \in 1..Len(s) : s[k] \in Digits \cup {"."}
            /\ Len(whole) + Len(decimals) >= 1
            /\ Len(decimals) <= 2
        cents ==
            IF Len(decimals) = 0 THEN 0
            ELSE IF Len(decimals) = 1 THEN DigitValue(decimals[1]) * 10
            ELSE digits_value(decimals)
    IN IF wellFormed THEN Num(digits_value(whole) * 100 + cents)
       ELSE [kind |-> "ValueError"]

\* current_bid of determine_market_prices: the bid text without '$' and
\* ',' as a float, 0.0 when float() raises ValueError
parse_current_bid(text) ==
    LET parsed == float_of(str_remove(str_remove(text, "$"), ","))
    IN IF parsed.kind = "ValueError" THEN Num(0) ELSE parsed

\* self.price_finder.get_best_market_price(item), called without await:
\* get_best_market_price is an async def, so the call returns a coroutine
get_best_market_price_call == [kind |-> "coroutine"]

\* market_price > 0: a TypeError unless market_price is a number
greater_than_zero(v) ==
    IF v.kind = "num" THEN Bool(v.val > 0) ELSE [kind |-> "TypeError"]

\* await v: a TypeError unless v is awaitable
await_value(v) ==
    IF v.kind = "coroutine" THEN [kind |-> "awaited"] ELSE [kind |-> "TypeError"]

\* what determine_market_prices returns when its loop ends
determine_market_prices_return == Bool(TRUE)

\* the dictionary extract_item_details builds
new_item(url, description, bid, nimages) ==
    [itemUrl |-> url, description |-> description, currentBid |-> bid,
     images |-> nimages,
     ocr_text |-> Absent, ocr_brands |-> Absent, ocr_model_numbers |-> Absent,
     enhanced_description |-> Absent, current_bid_float |-> Absent,
     market_price |-> Absent, potential_profit |-> Absent]

\* the descriptions of the item pages, as pieces of text: a lot-number
\* prefix, words without a model number, a character outside
\* [a-zA-Z0-9\s.,\-#], a blank
ItemDescriptions ==
    { <<"tv">>,
      <<"Lot #12:", " ", "tv", "&", " ", "stand", " ">> }

\* re.sub(r'Lot #.*?:', '', s)
remove_lot_number(s) == SelectSeq(s, LAMBDA t : t # "Lot #12:")

\* re.sub(r'[^a-zA-Z0-9\s\.,\-#]', ' ', s)
blank_disallowed(s) == [k \in 1..Len(s) |-> IF s[k] = "&" THEN " " ELSE s[k]]

\* re.sub(r'\s+', ' ', s)
RECURSIVE collapse_whitespace(_)
collapse_whitespace(s) ==
    IF Len(s) <= 1 THEN s
    ELSE IF s[1] = " " /\ s[2] = " " THEN collapse_whitespace(Tail(s))
    ELSE <<s[1]>> \o collapse_whitespace(Tail(s))

\* str.strip()
RECURSIVE strip(_)
strip(s) ==
    IF s = <<>> THEN s
    ELSE IF Head(s) = " " THEN strip(Tail(s))
    ELSE IF s[Len(s)] = " " THEN strip(SubSeq(s, 1, Len(s) - 1))
    ELSE s

\* lines 294-301: the description without its lot number, filtered and
\* with its white space collapsed
clean_description(s) ==
    strip(collapse_whitespace(blank_disallowed(strip(remove_lot_number(s)))))

\* a text stored in an item
Text(s) == [kind |-> "text", val |-> s]

\* what OCR reads in the images of an item: nothing, or a text, with the
\* brand names found in it
OcrOutcomes ==
    {[text |-> <<>>, brands |-> {}],
     [text |-> <<"sony", " ", "bravia", " ", "kdl">>, brands |-> {"sony"}]}

\* ImageProcessor.process_images: an item without images is returned as it
\* is; else enhanced_description is the cleaned description, behind the
\* brands and in front of the OCR text when the images had text
process_images(item, ocr) ==
    IF item.images = 0 THEN item
    ELSE IF ocr.text # <<>>
    THEN [item EXCEPT
              !.ocr_text = Text(ocr.text),
              !.ocr_brands = [kind |-> "list", val |-> ocr.brands],
              !.ocr_model_numbers = [kind |-> "list", val |-> {}],
              !.enhanced_description =
                  Text(strip(collapse_whitespace(blank_disallowed(
                      (IF ocr.brands = {} THEN <<>>
                       ELSE <<CHOOSE b \in ocr.brands : TRUE, " ">>)
                      \o strip(remove_lot_number(item.description))
                      \o <<" ">> \o ocr.text))))]
    ELSE [item EXCEPT
              !.ocr_brands = [kind |-> "list", val |-> {}],
              !.ocr_model_numbers = [kind |-> "list", val |-> {}],
              !.enhanced_description = Text(clean_description(item.description))]

\* ItemExtractor.extract_item_details: the item of the page, None when the
\* page could not be loaded or read
extract_item_details(url, out) ==
    IF out.kind = "extracted"
    THEN new_item(url, out.description, out.bid, out.images)
    ELSE NoneVal

\* mutant: what extract_item_details returned is kept even when it is None
accumulate_failed(list, item, ocr) ==
    Append(list, IF item = NoneVal THEN item ELSE process_images(item, ocr))

\* lines 246-256: self.items after one URL: unchanged when there is no
\* item, else with the item, image-processed, at its end
accumulate(list, item, ocr) ==
    IF item = NoneVal THEN list ELSE Append(list, process_images(item, ocr))

\* what one iteration of the loop over item_urls can meet: no item, or an
\* item with its description, bid text, number of images and OCR result
ItemOutcomes ==
    {[kind |-> "not_extracted"]}
    \cup [kind : {"extracted"}, description : ItemDescriptions, bid : BidTexts,
          images : 0..1, ocr : OcrOutcomes]

\* mutant: the finally block leaves the browser as it is
cleanup_browser_skipped(b) == b

\* cleanup_browser: closes a launched browser
cleanup_browser(b) == IF b = "open" THEN "closed" ELSE b

Init ==
    /\ FnIdle
    /\ RgIdle
    /\ PfIdle
    /\ pc = "main"
    /\ ENABLE_VPN_CHECK \in BOOLEAN
    /\ current_ip = "not_checked"
    /\ browser = "none"
    /\ cleanup_calls = 0
    /\ working_selectors = NoneVal
    /\ item_urls = <<>>
    /\ url_i = 0
    /\ items = <<>>
    /\ extract_log = <<>>
    /\ progress_files = <<>>
    /\ success = NoneVal
    /\ price_i = 0
    /\ main_outcome = "running"

\* main: the VPN check, made only when ENABLE_VPN_CHECK is set
MainCheckVPN(answer) ==
    /\ pc = "main"
    /\ current_ip' = IF ENABLE_VPN_CHECK THEN answer ELSE current_ip
    /\ IF ENABLE_VPN_CHECK /\ ~check_ip_safe(answer)
       THEN /\ pc' = "done"
            /\ main_outcome' = "vpn_abort"
       ELSE /\ pc' = "process_all_items"
            /\ UNCHANGED main_outcome
    /\ UNCHANGED <<ENABLE_VPN_CHECK, browser, cleanup_calls, working_selectors,
                   item_urls, url_i, items, progress_files, success, price_i>>
    /\ UNCHANGED <<extract_log, fnVars, rgVars, pfVars>>

\* mutant: process_all_items checks the IP only when ENABLE_VPN_CHECK is set
ProcessCheckIP_when_enabled(answer) ==
    /\ pc = "process_all_items"
    /\ current_ip' = IF ENABLE_VPN_CHECK THEN answer ELSE current_ip
    /\ IF ENABLE_VPN_CHECK => check_ip_safe(answer)
       THEN /\ pc' = "setup_browser"
            /\ UNCHANGED success
       ELSE /\ pc' = "after_process"
            /\ success' = Bool(FALSE)
    /\ UNCHANGED <<ENABLE_VPN_CHECK, browser, cleanup_calls, working_selectors,
                   item_urls, url_i, items, progress_files, main_outcome, price_i>>
    /\ UNCHANGED <<extract_log, fnVars, rgVars, pfVars>>

\* process_all_items: its own IP check, before the try block
ProcessCheckIP(answer) ==
    /\ pc = "process_all_items"
    /\ current_ip' = answer
    /\ IF check_ip_safe(answer)
       THEN /\ pc' = "setup_browser"
            /\ UNCHANGED success
       ELSE /\ pc' = "after_process"
            /\ success' = Bool(FALSE)
    /\ UNCHANGED <<ENABLE_VPN_CHECK, browser, cleanup_calls, working_selectors,
                   item_urls, url_i, items, progress_files, main_outcome, price_i>>
    /\ UNCHANGED <<extract_log, fnVars, rgVars, pfVars>>

\* how setup_browser can end
SetupOutcomes == {"page", "import_error", "launch_error", "context_error"}

\* setup_browser; without a page process_all_items returns False through
\* its finally block
SetupBrowser(out) ==
    /\ pc = "setup_browser"
    /\ IF out = "page"
       THEN /\ browser' = "open"
            /\ pc' = "analyze"
            /\ UNCHANGED <<success, cleanup_calls>>
       ELSE /\ browser' = cleanup_browser(IF out = "context_error" THEN "open" ELSE "none")
            /\ cleanup_calls' = cleanup_calls + 1
            /\ success' = Bool(FALSE)
            /\ pc' = "after_process"
    /\ UNCHANGED <<ENABLE_VPN_CHECK, working_selectors, item_urls, url_i, items,
                   progress_files, main_outcome, price_i>>
    /\ UNCHANGED <<current_ip, extract_log, fnVars, rgVars, pfVars>>

\* analyze_page_structure and the test of its result
AnalyzePage(out) ==
    /\ pc = "analyze"
    /\ working_selectors' = out
    /\ IF selectors_falsy(out)
       THEN /\ browser' = cleanup_browser(browser)
            /\ cleanup_calls' = cleanup_calls + 1
            /\ success' = Bool(FALSE)
            /\ pc' = "after_process"
       ELSE /\ pc' = "get_item_urls"
            /\ UNCHANGED <<browser, cleanup_calls, success>>
    /\ UNCHANGED <<ENABLE_VPN_CHECK, item_urls, url_i, items, progress_files,
                   main_outcome, price_i>>
    /\ UNCHANGED <<current_ip, extract_log, fnVars, rgVars, pfVars>>

\* get_item_urls, the limit to MAX_ITEMS and the reset of self.items
GetItemUrls(n, raises) ==
    /\ pc = "get_item_urls"
    /\ LET urls == get_item_urls(working_selectors, n, raises)
       IN IF urls = <<>>
          THEN /\ browser' = cleanup_browser(browser)
               /\ cleanup_calls' = cleanup_calls + 1
               /\ success' = Bool(FALSE)
               /\ pc' = "after_process"
               /\ UNCHANGED <<item_urls, url_i, items>>
          ELSE /\ item_urls' = limit_to_max_items(urls)
               /\ items' = <<>>
               /\ url_i' = 1
               /\ pc' = "loop"
               /\ UNCHANGED <<browser, cleanup_calls, success>>
    /\ UNCHANGED <<ENABLE_VPN_CHECK, working_selectors, progress_files,
                   main_outcome, price_i>>
    /\ UNCHANGED <<current_ip, extract_log, fnVars, rgVars, pfVars>>

\* one iteration of the loop over item_urls
ProcessItem(out) ==
    /\ pc = "loop"
    /\ url_i <= Len(item_urls)
    /\ extract_log' = Append(extract_log, [url |-> item_urls[url_i],
                                            extracted |-> out.kind = "extracted"])
    /\ LET item == extract_item_details(item_urls[url_i], out)
       IN /\ items' = accumulate(items, item, IF item = NoneVal THEN NoneVal ELSE out.ocr)
          /\ progress_files' =
                 IF item = NoneVal THEN progress_files
                 ELSE Append(progress_files,
                             [name |-> <<"progress", url_i, Len(item_urls)>>,
                              data |-> items'])
    /\ url_i' = url_i + 1
    /\ UNCHANGED <<pc, ENABLE_VPN_CHECK, browser, cleanup_calls, working_selectors,
                   item_urls, success, main_outcome, price_i>>
    /\ UNCHANGED <<current_ip, fnVars, rgVars, pfVars>>

\* the end of the loop: return True through the finally block
ProcessReturn ==
    /\ pc = "loop"
    /\ url_i > Len(item_urls)
    /\ browser' = cleanup_browser(browser)
    /\ cleanup_calls' = cleanup_calls + 1
    /\ success' = Bool(TRUE)
    /\ pc' = "after_process"
    /\ UNCHANGED <<ENABLE_VPN_CHECK, working_selectors, item_urls, url_i, items,
                   progress_files, main_outcome, price_i>>
    /\ UNCHANGED <<current_ip, extract_log, fnVars, rgVars, pfVars>>

\* main: the test of success
MainAfterProcess ==
    /\ pc = "after_process"
    /\ IF success.val
       THEN /\ pc' = "pricing"
            /\ price_i' = 1
            /\ UNCHANGED main_outcome
       ELSE /\ pc' = "done"
            /\ main_outcome' = "process_failed"
            /\ UNCHANGED price_i
    /\ UNCHANGED <<ENABLE_VPN_CHECK, browser, cleanup_calls, working_selectors,
                   item_urls, url_i, items, progress_files, success>>
    /\ UNCHANGED <<current_ip, extract_log, fnVars, rgVars, pfVars>>

\* one iteration of the loop of determine_market_prices; an exception
\* leaves the function and is caught by main's except Exception
PriceItem ==
    /\ pc = "pricing"
    /\ price_i <= Len(items)
    /\ LET item == items[price_i]
           current_bid == parse_current_bid(item.currentBid)
           market_price == get_best_market_price_call
           test == greater_than_zero(market_price)
           priced == [item EXCEPT !.current_bid_float = current_bid,
                                  !.market_price = market_price]
       IN IF test.kind = "TypeError"
          THEN /\ items' = [items EXCEPT ![price_i] = priced]
               /\ pc' = "done"
               /\ main_outcome' = "exception"
               /\ UNCHANGED <<price_i, progress_files>>
          ELSE LET profit == IF test.val THEN Num(market_price.val - current_bid.val)
                             ELSE Num(0)
                   done == [items EXCEPT ![price_i] =
                                [priced EXCEPT !.potential_profit = profit]]
               IN /\ items' = done
                  /\ progress_files' =
                         Append(progress_files,
                                [name |-> <<"price_progress", price_i, Len(items)>>,
                                 data |-> done])
                  /\ price_i' = price_i + 1
                  /\ UNCHANGED <<pc, main_outcome>>
    /\ UNCHANGED <<ENABLE_VPN_CHECK, browser, cleanup_calls, working_selectors,
                   item_urls, url_i, success>>
    /\ UNCHANGED <<current_ip, extract_log, fnVars, rgVars, pfVars>>

\* the end of the loop of determine_market_prices, and main's await of
\* what it returned
PricingReturn ==
    /\ pc = "pricing"
    /\ price_i > Len(items)
    /\ IF await_value(determine_market_prices_return).kind = "TypeError"
       THEN /\ pc' = "done"
            /\ main_outcome' = "exception"
       ELSE /\ pc' = "report"
            /\ UNCHANGED main_outcome
    /\ UNCHANGED <<ENABLE_VPN_CHECK, browser, cleanup_calls, working_selectors,
                   item_urls, url_i, items, progress_files, success, price_i>>
    /\ UNCHANGED <<current_ip, extract_log, fnVars, rgVars, pfVars>>

Next ==
    \/ \E answer \in IpAnswers : MainCheckVPN(answer)
    \/ \E answer \in IpAnswers : ProcessCheckIP(answer)
    \/ \E out \in SetupOutcomes : SetupBrowser(out)
    \/ \E out \in AnalyzeOutcomes : AnalyzePage(out)
    \/ \E n \in 0..MaxUrls, raises \in BOOLEAN : GetItemUrls(n, raises)
    \/ \E out \in ItemOutcomes : ProcessItem(out)
    \/ ProcessReturn
    \/ MainAfterProcess
    \/ PriceItem
    \/ PricingReturn

Spec == Init /\ [][Next]_vars

-----------------------------------------------------------------------------
(* product_identifier.py and object_detector.py: the search queries *)

\* A text is the sequence of its words, which single blanks separate; a word
\* is its spelling without case, its number of characters and whether it
\* reads as a model number.
Word(id, n, model) == [id |-> id, len |-> n, model |-> model]

RECURSIVE SumLen(_)
SumLen(t) == IF t = <<>> THEN 0 ELSE Head(t).len + SumLen(Tail(t))

\* len(text)
StrLen(t) == IF t = <<>> THEN 0 ELSE SumLen(t) + Len(t) - 1

\* ' '.join(text.split()[:n])
FirstWords(t, n) == SubSeq(t, 1, IF Len(t) < n THEN Len(t) ELSE n)

\* text[:n]; the last word may be cut, down to nothing behind a blank
RECURSIVE Truncate(_, _)
Truncate(t, n) ==
    IF t = <<>> THEN <<>>
    ELSE IF Head(t).len >= n THEN <<[Head(t) EXCEPT !.len = n]>>
    ELSE IF Tail(t) = <<>> THEN t
    ELSE <<Head(t)>> \o Truncate(Tail(t), n - Head(t).len - 1)

\* re.sub(r'Lot #.*?:', '', text).strip()
without_lot(t) == SelectSeq(t, LAMBDA w : w.id # "lot #12:")

\* part.lower() in text.lower()
contains(t, w) == \E k \in 1..Len(t) : t[k].id = w.id

\* the number of repetitions that makes a description of many words
RepeatedWords(n, len) == [k \in 1..n |-> Word("item", len, FALSE)]

\* if len(final_query) > 150
MaxPricingQuery == 150
\* if len(rich_query) > 200
MaxRichQuery == 200
\* if len(description_words) > 15
MaxBaseWords == 15

\* the brand names of common_brands that the descriptions use
common_brands == {"sony"}

\* the descriptions of the items
QueryDescriptions ==
    { <<>>,
      <<Word("lamp", 4, FALSE)>>,
      <<Word("lot #12:", 8, FALSE), Word("sony", 4, FALSE), Word("tx550", 5, TRUE),
        Word("tv", 2, FALSE)>>,
      RepeatedWords(12, 9),
      RepeatedWords(16, 9),
      RepeatedWords(15, 12),
      RepeatedWords(25, 9) }

\* the name query_quality of line 615, which nothing assigns
query_quality == [kind |-> "NameError"]

\* _generate_pricing_query down to the truncation of line 613, for an item
\* that has no object_detection
pricing_query_text(item) ==
    LET d0 == without_lot(item.description)
        d1 == IF d0 = <<>>
              THEN (IF item.enhanced_description = Absent THEN <<>>
                    ELSE item.enhanced_description.val)
              ELSE d0
        base0 == IF Len(d1) > MaxBaseWords THEN FirstWords(d1, MaxBaseWords) ELSE d1
        unique_models == SelectSeq(item.ocr_model_numbers,
                                   LAMBDA w : ~contains(base0, w))
        parts1 == FirstWords(unique_models, 2)
        new_brands == SelectSeq(item.ocr_brands, LAMBDA w : ~contains(base0, w))
        parts2 == parts1 \o FirstWords(new_brands, 1)
        category_new == /\ item.category # <<>>
                        /\ ~contains(base0, item.category[1])
                        /\ ~contains(parts2, item.category[1])
        enhancement_parts == IF category_new THEN parts2 \o item.category ELSE parts2
        brands_in == SelectSeq(base0, LAMBDA w : w.id \in common_brands)
        models_in == SelectSeq(base0, LAMBDA w : w.model)
        has_model_in_description == models_in # <<>>
        focused_query == <<brands_in[1], models_in[1]>>
        base_description ==
            IF brands_in # <<>> /\ has_model_in_description
            THEN (IF StrLen(focused_query) > 10 THEN focused_query ELSE base0)
            ELSE base0
        brand_parts == SelectSeq(enhancement_parts,
                                 LAMBDA p : contains(item.ocr_brands, p))
        final0 == IF has_model_in_description
                  THEN FirstWords(brand_parts, 1) \o base_description
                  ELSE enhancement_parts \o base_description
        final1 == IF item.category # <<>> /\ ~contains(final0, item.category[1])
                  THEN final0 \o item.category ELSE final0
    IN  IF StrLen(final1) > MaxPricingQuery THEN Truncate(final1, MaxPricingQuery)
        ELSE final1

\* ProductIdentifier._generate_pricing_query: the log line that follows the
\* truncation reads query_quality, and the except branch returns the
\* description of the item as it is
generate_pricing_query(item) ==
    IF query_quality.kind = "NameError" THEN item.description
    ELSE pricing_query_text(item)

\* ProductIdentifier._get_best_search_query
get_best_search_query(item) ==
    IF item.rich_search_query # Absent /\ item.rich_search_query.val # <<>>
    THEN item.rich_search_query
    ELSE IF item.enhanced_description # Absent /\ item.enhanced_description.val # <<>>
    THEN item.enhanced_description
    ELSE IF item.description # <<>> THEN Text(item.description)
    ELSE NoneVal

\* ProductIdentifier.identify_product: nothing is stored without a search
\* query or when one of the identification methods raises
identify_product(item, raises) ==
    IF get_best_search_query(item) = NoneVal \/ raises THEN item
    ELSE [item EXCEPT !.final_search_query = Text(generate_pricing_query(item))]

\* the items identify_product gets, with the category its methods find
IdentifyItems ==
    [description : QueryDescriptions,
     enhanced_description : {Absent, Text(<<Word("lamp", 4, FALSE), Word("brass", 5, FALSE)>>)},
     rich_search_query : {Absent},
     ocr_model_numbers : {<<>>, <<Word("kdl40", 5, TRUE)>>},
     ocr_brands : {<<>>, <<Word("sony", 4, FALSE)>>},
     category : {<<>>, <<Word("electronics", 11, FALSE)>>},
     final_search_query : {Absent}]

InitIdentify ==
    /\ fn_pc = "ready"
    /\ fn_in \in IdentifyItems
    /\ fn_out = NoneVal
    /\ RgIdle
    /\ PfIdle
    /\ MainIdle

ReturnIdentify(raises) ==
    /\ fn_pc = "ready"
    /\ fn_out' = identify_product(fn_in, raises)
    /\ fn_pc' = "done"
    /\ UNCHANGED fn_in
    /\ UNCHANGED <<rgVars, pfVars, mainVars>>

NextIdentify == \E raises \in BOOLEAN : ReturnIdentify(raises)

SpecIdentify == InitIdentify /\ [][NextIdentify]_vars

\* what object detection finds in the images of an item
Detections ==
    [detected_brands : {<<>>, <<Word("sony", 4, FALSE)>>},
     model_numbers : {<<>>, <<Word("kdl40", 5, TRUE)>>},
     detected_objects : {<<>>, <<Word("television", 10, FALSE)>>},
     colors : {<<>>, <<Word("black", 5, FALSE)>>}]

\* lines 529-572 of enhance_item_with_object_detection: the query built
\* of the detections and the description, or the description alone
rich_query(item, detection) ==
    LET brand_text == detection.detected_brands
        model_text == detection.model_numbers
        object_text == FirstWords(detection.detected_objects, 3)
        color_text == FirstWords(detection.colors, 2)
        texts == SelectSeq(<<brand_text, model_text, object_text, color_text>>,
                           LAMBDA t : t # <<>>)
        desc0 == IF item.enhanced_description # Absent
                    /\ item.enhanced_description.val # <<>>
                 THEN item.enhanced_description.val
                 ELSE item.description
        original_desc == without_lot(desc0)
        max_desc_length == IF Len(texts) > 2 THEN 30 ELSE 50
        short_desc == FirstWords(original_desc, max_desc_length)
        joined == brand_text \o model_text \o object_text \o color_text \o short_desc
    IN  IF texts # <<>>
        THEN (IF StrLen(joined) > MaxRichQuery THEN Truncate(joined, MaxRichQuery)
              ELSE joined)
        ELSE original_desc

\* ObjectDetector.enhance_item_with_object_detection
enhance_item_with_object_detection(item, detection) ==
    IF item.images = 0 THEN item
    ELSE [item EXCEPT !.object_detection = detection,
                      !.rich_search_query = Text(rich_query(item, detection))]

\* the items enhance_item_with_object_detection gets
DetectionItems ==
    [description : QueryDescriptions,
     enhanced_description : {Absent},
     images : 0..1,
     object_detection : {Absent},
     rich_search_query : {Absent}]

InitDetect ==
    /\ fn_pc = "ready"
    /\ fn_in \in DetectionItems
    /\ fn_out = NoneVal
    /\ RgIdle
    /\ PfIdle
    /\ MainIdle

ReturnDetect(detection) ==
    /\ fn_pc = "ready"
    /\ fn_out' = enhance_item_with_object_detection(fn_in, detection)
    /\ fn_pc' = "done"
    /\ UNCHANGED fn_in
    /\ UNCHANGED <<rgVars, pfVars, mainVars>>

NextDetect == \E detection \in Detections : ReturnDetect(detection)

SpecDetect == InitDetect /\ [][NextDetect]_vars

-----------------------------------------------------------------------------
(* item_extractor.py: ItemExtractor.find_working_selectors *)

\* most candidate selectors of one role
MaxCandidates == 3

\* the roles of the selector table that the model follows
CandidateRoles == {"items", "link"}

\* what a candidate selector does on the page: it matches no element, it
\* matches at least one, or evaluating it raises
CandidateOutcomes == {"no_match", "match", "raises"}

\* mutant: the loop over the candidates has no break, the last match wins
first_working_no_break(candidates, k) ==
    LET matching == {j \in k..Len(candidates) : candidates[j] = "match"}
    IN  IF matching = {} THEN 0
        ELSE CHOOSE j \in matching : \A i \in matching : i <= j

\* lines 199-222: the loop over the candidates of one role from candidate
\* k on; the position of the selector it accepts, 0 when it accepts none
RECURSIVE first_working(_, _)
first_working(candidates, k) ==
    IF k > Len(candidates) THEN 0
    ELSE IF candidates[k] = "match" THEN k
    ELSE first_working(candidates, k + 1)

\* ItemExtractor.find_working_selectors on a page: the dictionary of the
\* roles a selector was accepted for
find_working_selectors(page) ==
    LET found == {role \in DOMAIN page : first_working(page[role], 1) # 0}
    IN  [role \in found |-> first_working(page[role], 1)]

\* the pages: for every role what each of its candidates does
SelectorPages == [CandidateRoles -> SeqsUpTo(CandidateOutcomes, MaxCandidates)]

InitSelectors ==
    /\ fn_pc = "ready"
    /\ fn_in \in SelectorPages
    /\ fn_out = NoneVal
    /\ RgIdle
    /\ PfIdle
    /\ MainIdle

ReturnSelectors ==
    /\ fn_pc = "ready"
    /\ fn_out' = find_working_selectors(fn_in)
    /\ fn_pc' = "done"
    /\ UNCHANGED fn_in
    /\ UNCHANGED <<rgVars, pfVars, mainVars>>

NextSelectors == ReturnSelectors

SpecSelectors == InitSelectors /\ [][NextSelectors]_vars

-----------------------------------------------------------------------------
(* Claims about a run of main() (Spec) *)

\* process_all_items returned True with at least one item and main() ended
PricedRunEnded ==
    /\ pc = "done"
    /\ success = Bool(TRUE)
    /\ Len(items) >= 1

\* C1: after process_all_items succeeded with at least one item, every item
\* carries a numeric current_bid_float, market_price and potential_profit:
\* the pricing phase never ends the run early
C1_PricingCompletes ==
    PricedRunEnded =>
        \A k \in 1..Len(items) :
            /\ items[k].current_bid_float.kind = "num"
            /\ items[k].market_price.kind = "num"
            /\ items[k].potential_profit.kind = "num"

-----------------------------------------------------------------------------
(* Claims about get_best_market_price (SpecPrice) *)

Called(source) == \E i \in 1..Len(pf_calls) : pf_calls[i] = source

SourceOrder(source) ==
    CASE source = "llm" -> 0
      [] source = "web" -> 1
      [] source = "fallback" -> 2
      [] source = "amazon" -> 3
      [] source = "estimate" -> 4

\* C3: the sources are tried in the order web search, e-commerce search,
\* keyword estimate; the e-commerce search is invoked only if the web search
\* returned no positive price and ENABLE_AMAZON_SEARCH is set, the estimator
\* only if neither search yielded a price, and a positive web price is the
\* value returned.
C3_SourceOrder ==
    /\ \A i, j \in 1..Len(pf_calls) :
           i < j => SourceOrder(pf_calls[i]) < SourceOrder(pf_calls[j])
    /\ Called("amazon") =>
           /\ Called("web")
           /\ ~is_positive(google_price)
           /\ pf_cfg.ENABLE_AMAZON_SEARCH
    /\ Called("estimate") =>
           /\ Called("web")
           /\ ~is_positive(google_price)
           /\ amazon_prices = <<>>
    /\ (pf_pc = "done" /\ is_positive(google_price)) => pf_ret = google_price

\* every source was tried in turn: the web search and its scrape found
\* nothing, the e-commerce search failed, the estimate was returned
C3_Witness ==
    /\ pf_pc = "done"
    /\ pf_calls = <<"web", "fallback", "amazon", "estimate">>
    /\ amazon_price = NoneVal
    /\ pf_ret = Num(estimate_price_from_description(search_query))

\* C4: when the LLM stage is enabled and its result flags
\* insufficient_identification, the call returns 0.0 and sets
\* skip_for_processing without invoking another source and without setting
\* used_search_query.
C4_InsufficientShortCircuit ==
    (/\ pf_cfg.OPENROUTER_ENABLED
     /\ llm_results.kind = "result"
     /\ llm_results.insufficient_identification)
    => /\ pf_pc = "done"
       /\ pf_ret = Num(0)
       /\ pf_item.skip_for_processing = Bool(TRUE)
       /\ pf_calls = <<"llm">>
       /\ pf_item.used_search_query = Absent

\* an item that has a final_search_query of its own is flagged by the LLM
C4_Witness ==
    /\ pf_pc = "done"
    /\ llm_results.kind = "result"
    /\ llm_results.insufficient_identification
    /\ Truthy(llm_results.google_query)
    /\ pf_item.final_search_query = QFinal
    /\ pf_ret = Num(0)

\* C5: no exception leaves get_best_market_price: a failure of the LLM call,
\* of the web search, of its scrape fallback or of the e-commerce search
\* yields None or falls through to the next source, and an exception that
\* escapes inside the chain makes the call return exactly 25.0.
C5_NeverRaises ==
    /\ ~pf_raised
    /\ "llm" \in pf_exc => pf_item.llm_product_info = Absent /\ pf_pc # "start"
    /\ "google_api" \in pf_exc => pf_pc = "fallback" \/ Called("fallback")
    /\ ("google" \in pf_exc \/ "fallback" \in pf_exc) => google_price = NoneVal
    /\ "amazon" \in pf_exc => amazon_price = NoneVal
    /\ "chain" \in pf_exc => pf_pc = "done" /\ pf_ret = Num(2500)
    /\ pf_pc = "done" => pf_ret.kind = "num"

\* the LLM query is no string: both searches raise on it and return None,
\* and slicing it raises into the catch-all
C5_Witness ==
    /\ pf_pc = "done"
    /\ {"google", "amazon", "chain"} \subseteq pf_exc
    /\ pf_ret = Num(2500)

\* the estimator as C9 describes it: the adjustments on top of a base price
C9_EstimateFromBase(base, description) ==
    LET w == description.words
        b1 == base
                + 5000 * Cardinality(w \cap high_value_keywords)
                + 1500 * Cardinality(w \cap mid_value_keywords)
                - 500 * Cardinality(w \cap low_value_keywords)
        b2 == IF description.multiPiece THEN (b1 * 3) \div 2 ELSE b1
        b3 == IF Len(description.inches) > 0
                 /\ description.inches[1].size > SizeThreshold
              THEN b2 + (description.inches[1].size - SizeThreshold) * 500
              ELSE b2
    IN  Max(b3, MinEstimate)

\* C9: the keyword estimate starts from the base price of the item's
\* product_info category (50.0 only when the item has no category), the
\* keyword, multi-piece and size adjustments applied on top of it.
C9_CategoryBasePrice ==
    (/\ pf_pc = "done"
     /\ Called("estimate")
     /\ ~Called("amazon"))
    => LET category == IF pf_item.product_info = Absent THEN ""
                       ELSE pf_item.product_info.category
       IN  pf_ret = Num(C9_EstimateFromBase(category_base_prices[category],
                                            search_query))

-----------------------------------------------------------------------------
(* Claims about the median of a search source (SpecMedian) *)

CountLess(P, r) == Cardinality({i \in 1..Len(P) : P[i] < r})
CountLeq(P, r) == Cardinality({i \in 1..Len(P) : P[i] <= r})
\* the element at 0-based position k of P in ascending order
RankElem(P, k) ==
    CHOOSE x \in {P[i] : i \in 1..Len(P)} : CountLess(P, x) <= k /\ k < CountLeq(P, x)

-----------------------------------------------------------------------------
(* Claims about the report (SpecReport) *)

\* the items whose skip_for_processing is True on entry
SkippedOnEntry ==
    {k \in 1..Len(rg_entry) : get_skip_for_processing(rg_entry[k])}

RowLots(rows) == {rows[j].lotNumber : j \in 1..Len(rows)}

\* C2: every item whose skip_for_processing is True on entry is absent from
\* the data rows and is counted in 'Items Skipped' of the metadata sheet.
C2_SkippedOnEntryExcluded ==
    rg_report # Absent =>
        /\ RowLots(rg_report.Opportunities) \cap SkippedOnEntry = {}
        /\ rg_report.Metadata.items_skipped >= Cardinality(SkippedOnEntry)

\* C6 as stated: the potential profit shown for an item is
\* max(0, market_price - current_bid) when market_price > 0, else 0.
C6_ProfitNeverNegative ==
    \A j \in 1..Len(data) :
        LET r == data[j]
        IN  r.potential_profit =
                IF r.market_price > 0
                THEN Max(0, r.market_price - r.current_bid) ELSE 0

\* C6 amended: the potential profit shown for an item is
\* market_price - current_bid when market_price > 0, else 0, the two taken
\* from the item (0 when missing); it is negative when the bid is higher.
C6_ProfitIsDifference ==
    \A j \in 1..Len(data) :
        LET r == data[j]
            item == rg_entry[r.lotNumber]
            bid == get_number_or_0(item.current_bid_float)
            mp == get_number_or_0(item.market_price)
        IN  /\ r.current_bid = bid
            /\ r.market_price = mp
            /\ (mp > 0 => r.potential_profit = mp - bid)
            /\ (mp <= 0 => r.potential_profit = 0)

\* a reported row whose bid is above its positive market price
C6_Witness ==
    /\ rg_report # Absent
    /\ \E j \in 1..Len(rg_report.Opportunities) :
           LET r == rg_report.Opportunities[j]
           IN  r.market_price > 0 /\ r.current_bid > r.market_price
               /\ r.potential_profit < 0

\* C7: for every reported item profit_margin is
\* potential_profit / current_bid * 100 when current_bid > 0 and
\* market_price > 0, and 0 otherwise; no division by a zero bid occurs.
C7_ProfitMargin ==
    /\ rg_error # "ZeroDivisionError"
    /\ \A j \in 1..Len(data) :
           LET r == data[j]
               m == r.profit_margin
           IN  /\ m.kind = "frac" /\ m.den # 0
               /\ IF r.current_bid > 0 /\ r.market_price > 0
                  THEN m.num * r.current_bid = r.potential_profit * 100 * m.den
                  ELSE m.num = 0

\* the spec's scenario: bid 50.00, market price 150.00, margin 200 percent,
\* beside an item with a zero bid and a market price
C7_Witness ==
    /\ rg_report # Absent
    /\ \E j, k \in 1..Len(rg_report.Opportunities) :
           LET r == rg_report.Opportunities[j]
               z == rg_report.Opportunities[k]
           IN  /\ r.current_bid = 5000 /\ r.market_price = 15000
               /\ r.profit_margin.num = 200 * r.profit_margin.den
               /\ z.current_bid = 0 /\ z.market_price > 0
               /\ z.profit_margin.num = 0

-----------------------------------------------------------------------------
(* Claims about the keyword estimator (SpecEstimate) *)

-----------------------------------------------------------------------------
(* Claims about scraping in a run of main() (Spec) *)

\* a selector for the items or for the link was not found on the listing page
SelectorMissing ==
    /\ working_selectors # NoneVal
    /\ ~({"items", "link"} \subseteq working_selectors.roles)

\* C11: when no selector resolves for the 'items' or for the 'link' role the
\* run is fatal: process_all_items returns False, the loop over item pages
\* never starts, self.items stays empty and main neither prices items nor
\* reaches the report.
C11_MissingSelectorFatal ==
    SelectorMissing =>
        /\ pc \in {"get_item_urls", "after_process", "done"}
        /\ pc # "get_item_urls" => success = Bool(FALSE)
        /\ pc = "done" => main_outcome = "process_failed"
        /\ items = <<>> /\ item_urls = <<>> /\ extract_log = <<>>
        /\ url_i = 0 /\ price_i = 0

\* the listing page has items but no link inside them, and main has ended
C11_Witness ==
    /\ pc = "done"
    /\ working_selectors # NoneVal
    /\ working_selectors.roles = {"items", "description"}
    /\ main_outcome = "process_failed"

\* C12: when the public IP is the home IP or cannot be determined the run
\* fails before scraping: process_all_items returns False without a browser
\* or a page, and main ends without pricing or report.
C12_UnsafeIpFailsRun ==
    current_ip \in {"home", "error"} =>
        /\ pc \in {"after_process", "done"}
        /\ pc = "after_process" => success = Bool(FALSE)
        /\ pc = "done" => main_outcome \in {"vpn_abort", "process_failed"}
        /\ browser = "none" /\ cleanup_calls = 0
        /\ working_selectors = NoneVal /\ item_urls = <<>> /\ items = <<>>
        /\ url_i = 0 /\ price_i = 0

\* main's own check is off, the check of process_all_items gets no answer,
\* and main has ended
C12_Witness ==
    /\ pc = "done"
    /\ ~ENABLE_VPN_CHECK
    /\ current_ip = "error"
    /\ success = Bool(FALSE)
    /\ main_outcome = "process_failed"

\* the URLs extract_item_details returned an item for, in the order visited
ExtractedUrls ==
    LET ok == SelectSeq(extract_log, LAMBDA e : e.extracted)
    IN  [k \in 1..Len(ok) |-> ok[k].url]

\* the snapshots of the extraction stage
ProgressSnapshots == SelectSeq(progress_files, LAMBDA f : f.name[1] = "progress")

\* C13: a URL whose extraction fails adds nothing to self.items and writes
\* no snapshot, the loop goes on with every remaining URL, and the items
\* are exactly those of the URLs extracted, in URL order.
C13_FailedExtractionSkipped ==
    /\ \A k \in 1..Len(items) : items[k] # NoneVal
    /\ [k \in 1..Len(items) |-> items[k].itemUrl] = ExtractedUrls
    /\ Len(ProgressSnapshots) = Len(ExtractedUrls)
    /\ \A k \in 1..Len(ProgressSnapshots) :
           extract_log[ProgressSnapshots[k].name[2]].extracted
    /\ pc = "loop" => Len(extract_log) = url_i - 1
    /\ success = Bool(TRUE) => Len(extract_log) = Len(item_urls)

\* the first of two URLs fails, the second is extracted, and the loop ended
C13_Witness ==
    /\ success = Bool(TRUE)
    /\ Len(extract_log) = 2
    /\ ~extract_log[1].extracted
    /\ extract_log[2].extracted
    /\ Len(items) = 1

\* C14: after determine_market_prices has finished and before the run ends,
\* PriceFinder.close has been called and search_session is None.
C14_SessionReleased ==
    (pc = "done" /\ success = Bool(TRUE)) =>
        /\ Called("close")
        /\ search_session = "None"

\* the snapshots of the pricing stage
PriceSnapshots == SelectSeq(progress_files, LAMBDA f : f.name[1] = "price_progress")

\* C15: a snapshot of the whole item list is written once after each item
\* processed and once after each item priced, each holding every item
\* accumulated so far, the snapshots of a stage only growing.
C15_SnapshotPerItem ==
    (pc = "done" /\ success = Bool(TRUE)) =>
        /\ Len(ProgressSnapshots) = Len(items)
        /\ \A k \in 1..Len(ProgressSnapshots) :
               Len(ProgressSnapshots[k].data) = k
        /\ Len(PriceSnapshots) = Len(items)
        /\ \A k \in 1..Len(PriceSnapshots) :
               /\ PriceSnapshots[k].name = <<"price_progress", k, Len(items)>>
               /\ Len(PriceSnapshots[k].data) = Len(items)

\* C16: an item with zero images leaves the image stage with
\* enhanced_description equal to its cleaned description, ocr_brands = [] and
\* ocr_model_numbers = [].
C16_NoImagesCleanDescription ==
    \A k \in 1..Len(items) :
        items[k].images = 0 =>
            /\ items[k].enhanced_description = Text(clean_description(items[k].description))
            /\ items[k].ocr_brands = [kind |-> "list", val |-> {}]
            /\ items[k].ocr_model_numbers = [kind |-> "list", val |-> {}]

-----------------------------------------------------------------------------
(* Claims about the search queries (SpecIdentify, SpecDetect) *)

\* C17: the final_search_query that identify_product stores is at most 150
\* characters long.
C17_FinalQueryAtMost150 ==
    (fn_pc = "done" /\ fn_out.final_search_query # Absent) =>
        StrLen(fn_out.final_search_query.val) <= MaxPricingQuery

\* C18: the rich_search_query that enhance_item_with_object_detection writes
\* for an item with images is at most 200 characters long, with detections
\* and without.
C18_RichQueryAtMost200 ==
    (fn_pc = "done" /\ fn_out.rich_search_query # Absent) =>
        StrLen(fn_out.rich_search_query.val) <= MaxRichQuery

-----------------------------------------------------------------------------
(* Claims about the LLM stage (SpecPrice, SpecLLM) *)

\* the first query of the item that is not empty, in the order
\* final_search_query, rich_search_query, enhanced_description, description
FirstQueryByPriority ==
    LET candidates == <<pf_item.final_search_query, pf_item.rich_search_query,
                        pf_item.enhanced_description, pf_item.description>>
        present == {k \in 1..4 : Truthy(candidates[k])}
    IN  IF present = {} THEN EmptyStr
        ELSE candidates[CHOOSE k \in present : \A j \in present : k <= j]

FieldUnknownOrEmpty ==
    \/ fn_in.identified_product_type \in {"Unknown", ""}
    \/ fn_in.brand \in {"Unknown", ""}
    \/ fn_in.model_name_number \in {"Unknown", ""}

\* a product field of the response is "unclear"
FieldUnclear ==
    \/ fn_in.identified_product_type = "unclear"
    \/ fn_in.brand = "unclear"
    \/ fn_in.model_name_number = "unclear"

\* one of the two generated queries is empty
QueryEmpty ==
    \/ fn_in.google_search_query = EmptyStr
    \/ fn_in.amazon_search_query = EmptyStr

\* C20: insufficient_identification is true exactly when product_type, brand
\* or model is "Unknown" or empty, or a generated query is empty.
C20_InsufficientExactly ==
    fn_pc = "done" =>
        (fn_out.insufficient_identification <=> (FieldUnknownOrEmpty \/ QueryEmpty))

\* C20, amended: insufficient_identification is true exactly when
\* product_type, brand or model is "Unknown", "unclear" or empty, or a
\* generated query is empty.
C20_InsufficientWithUnclear ==
    fn_pc = "done" =>
        (fn_out.insufficient_identification
             <=> (FieldUnknownOrEmpty \/ FieldUnclear \/ QueryEmpty))

\* a response whose only flaw is an empty e-commerce query is flagged
C20_Witness ==
    /\ fn_pc = "done"
    /\ ~FieldUnknownOrEmpty /\ ~FieldUnclear
    /\ fn_in.google_search_query = QGoogle
    /\ fn_in.amazon_search_query = EmptyStr
    /\ fn_out.insufficient_identification

-----------------------------------------------------------------------------
(* Claims about the report, continued (SpecReport) *)

\* C21: generate_excel_report leaves every field of every item of the list
\* it is given unchanged, for skipped and reported items alike.
C21_ItemsUnchanged == rg_items = rg_entry

\* C30: generate_excel_report never lets an exception out: it returns the
\* output path when the report was written and None on any failure, the
\* case of no data rows (no items, or every item skipped) included.
C30_ReportNeverRaises ==
    /\ rg_ret \in {"pending", "path", "None"}
    /\ rg_pc = "done" =>
           /\ rg_ret \in {"path", "None"}
           /\ rg_ret = "path" <=> rg_report # Absent
           /\ rg_ret = "None" <=> rg_error # "none"
           /\ data = <<>> => rg_ret = "None"

\* every item of a list of two was skipped, and None was returned
C30_Witness ==
    /\ rg_pc = "done"
    /\ Len(rg_entry) = 2
    /\ skipped_items = 2
    /\ data = <<>>
    /\ rg_error = "KeyError"
    /\ rg_ret = "None"

-----------------------------------------------------------------------------
(* Claims about the selectors (SpecSelectors) *)

\* C22: for each role the accepted selector is the first candidate, in list
\* order, that matches an element, a candidate that raises counting as no
\* match; a role without a matching candidate is absent from the result;
\* the outcome of a role depends on its own candidates only.
C22_FirstMatchingSelector ==
    fn_pc = "done" =>
        /\ DOMAIN fn_out \subseteq CandidateRoles
        /\ \A role \in CandidateRoles :
               LET candidates == fn_in[role]
                   matching == {k \in 1..Len(candidates) : candidates[k] = "match"}
               IN  /\ role \in DOMAIN fn_out <=> matching # {}
                   /\ role \in DOMAIN fn_out =>
                          /\ fn_out[role] \in matching
                          /\ \A k \in matching : fn_out[role] <= k

\* the first 'items' candidate raises, the second and third match; no
\* 'link' candidate matches
C22_Witness ==
    /\ fn_pc = "done"
    /\ fn_in["items"] = <<"raises", "match", "match">>
    /\ fn_in["link"] = <<"no_match", "raises">>
    /\ DOMAIN fn_out = {"items"}
    /\ fn_out["items"] = 2


-----------------------------------------------------------------------------
(* ProductIdentifier.identify_product: the three sources of product_info *)

MergeKeys == {"brand", "model", "category"}

BrandValues == {"", "Sony", "Bosch"}

ModelValues == {"", "X100", "Z9"}

CategoryValues == {"", "tools"}

\* brand, model and category as object detection supplies them: the first
\* detected brand, the first model number, the category of the objects
DetectionInfos ==
    [brand : BrandValues, model : ModelValues, category : CategoryValues]

\* _search_product_database: None when it raised, else a result with the
\* brand found in the query and every other field empty
search_product_database(found_brand, raises) ==
    IF raises THEN NoneVal
    ELSE [kind |-> "result", success |-> found_brand # "", name |-> "",
          brand |-> found_brand, model |-> "", category |-> ""]

ProductSearchResults ==
    {search_product_database(b, r) : b \in BrandValues, r \in BOOLEAN}

\* _extract_structured_info: None when it raised, else the fields it read
\* from the texts
ExtractedInfos ==
    {NoneVal} \cup
    [kind : {"result"}, brand : BrandValues, model : ModelValues,
     category : CategoryValues]

\* Method 1: product_info starts from what object detection found
merge_detection(detection_info) ==
    [key \in MergeKeys |-> detection_info[key]]

\* Method 2: every non-empty field of a successful lookup is stored
merge_product_search(product_info, enabled, product_search_results) ==
    IF enabled /\ product_search_results # NoneVal
              /\ product_search_results.success
    THEN [key \in MergeKeys |->
              IF product_search_results[key] # ""
              THEN product_search_results[key]
              ELSE product_info[key]]
    ELSE product_info

\* Method 3: extracted fields go to the fields that are still empty
merge_extracted(product_info, extracted_info) ==
    IF extracted_info # NoneVal
    THEN [key \in MergeKeys |->
              IF extracted_info[key] # "" /\ product_info[key] = ""
              THEN extracted_info[key]
              ELSE product_info[key]]
    ELSE product_info

product_info_of(in) ==
    merge_extracted(
        merge_product_search(merge_detection(in.detection_info),
                             in.PRODUCT_SEARCH_ENABLED,
                             in.product_search_results),
        in.extracted_info)

InitMerge ==
    /\ fn_pc = "ready"
    /\ fn_in \in [detection_info : DetectionInfos,
                  PRODUCT_SEARCH_ENABLED : BOOLEAN,
                  product_search_results : ProductSearchResults,
                  extracted_info : ExtractedInfos]
    /\ fn_out = NoneVal
    /\ RgIdle
    /\ PfIdle
    /\ MainIdle

ReturnMerge ==
    /\ fn_pc = "ready"
    /\ fn_out' = product_info_of(fn_in)
    /\ fn_pc' = "done"
    /\ UNCHANGED fn_in
    /\ UNCHANGED <<rgVars, pfVars, mainVars>>

NextMerge == ReturnMerge

SpecMerge == InitMerge /\ [][NextMerge]_vars

-----------------------------------------------------------------------------
(* Claims about the sources of product_info (SpecMerge) *)

\* what a source offers for a field, "" when it offers nothing
offered_by_search(in, key) ==
    IF in.PRODUCT_SEARCH_ENABLED /\ in.product_search_results # NoneVal
                                 /\ in.product_search_results.success
    THEN in.product_search_results[key]
    ELSE ""

offered_by_text(in, key) ==
    IF in.extracted_info # NoneVal THEN in.extracted_info[key] ELSE ""

\* C23: brand, model and category come from object detection first, then
\* from the product-database lookup, then from text extraction: a field a
\* higher-priority source supplied keeps that value, and a lower-priority
\* source only fills a field that is still empty.
C23_HigherPriorityKept ==
    fn_pc = "done" =>
        \A key \in MergeKeys :
            fn_out[key] =
                IF fn_in.detection_info[key] # ""
                THEN fn_in.detection_info[key]
                ELSE IF offered_by_search(fn_in, key) # ""
                THEN offered_by_search(fn_in, key)
                ELSE offered_by_text(fn_in, key)


-----------------------------------------------------------------------------
(* ObjectDetector._is_model_number *)

MaxTextLen == 4

Upper ==
    <<"A", "B", "C", "D", "E", "F", "G", "H", "I", "J", "K", "L", "M",
      "N", "O", "P", "Q", "R", "S", "T", "U", "V", "W", "X", "Y", "Z">>

Lower ==
    <<"a", "b", "c", "d", "e", "f", "g", "h", "i", "j", "k", "l", "m",
      "n", "o", "p", "q", "r", "s", "t", "u", "v", "w", "x", "y", "z">>

\* [A-Za-z], and [A-Z] under re.IGNORECASE
Alpha == {Upper[k] : k \in 1..26} \cup {Lower[k] : k \in 1..26}

\* a literal character of a pattern under re.IGNORECASE
Lit(c) ==
    IF c \in Alpha
    THEN UNION {{Upper[k], Lower[k]} : k \in {n \in 1..26 : c \in {Upper[n], Lower[n]}}}
    ELSE {c}

\* one piece of a pattern: a character class repeated min..max times
Rep(class, min, max) == [class |-> class, min |-> min, max |-> max]

One(class) == Rep(class, 1, 1)

\* the literal characters of a word, one piece each
Word1(chars) == [k \in 1..Len(chars) |-> One(Lit(chars[k]))]

\* the patterns of lines 407-431, an alternation written as one pattern per
\* alternative or as a class when the alternatives differ in one character
patterns ==
    << <<Rep(Alpha, 1, 4), Rep({"-"}, 0, 1), Rep(Digits, 2, 6)>>,
       <<Rep(Alpha, 2, 4), Rep(Digits, 2, 4), Rep(Alpha, 0, 1)>>,
       <<Rep(Alpha, 2, 8), Rep(Digits, 4, 8)>>,
       <<Rep(Digits, 1, 4), Rep(Alpha, 1, 3), Rep(Digits, 1, 4)>>,
       <<One(Alpha), Rep(Digits, 1, 2), One({"-"}), Rep(Digits, 1, 4),
         Rep(Alpha, 0, 1)>>,
       <<Rep(Alpha, 2, 4), One({"-"}), One(Alpha), Rep(Digits, 1, 4)>>,
       <<One(Lit("U") \cup Lit("Q") \cup Lit("L")), One(Lit("N")),
         Rep(Digits, 2, 2), One(Alpha), Rep(Digits, 4, 4), One(Alpha)>>,
       <<Rep(Alpha, 2, 2), One({"-"}), One(Alpha), Rep(Digits, 4, 4),
         One(Alpha)>>,
       <<One(Lit("M")),
         One(Lit("H") \cup Lit("L") \cup Lit("S") \cup Lit("P")),
         Rep(Digits, 2, 4), Rep(Alpha, 0, 1)>>,
       <<Rep(Alpha, 3, 3), Rep(Digits, 4, 4), Rep(Alpha, 1, 2)>>,
       <<Rep(Alpha, 2, 2), Rep(Digits, 2, 4), Rep(Alpha, 0, 2)>>,
       Word1(<<"S", "M", "-">>) \o <<One(Alpha), Rep(Digits, 3, 4)>>,
       Word1(<<"G", "a", "l", "a", "x", "y">>) \o
           <<Rep({" "}, 0, 1), One(Lit("S")), Rep(Digits, 1, 2)>>,
       Word1(<<"i", "P", "h", "o", "n", "e">>) \o
           <<Rep({" "}, 0, 1), Rep(Digits, 1, 2)>>,
       <<Rep(Alpha, 1, 2), Rep(Digits, 1, 3), One({"-"}),
         One(Lit("B") \cup Lit("X") \cup Lit("L")), One(Lit("T"))>>,
       <<Rep(Alpha, 2, 4), One({"-"}), Rep(Digits, 2, 4), Rep(Alpha, 0, 1),
         One({"-"}), Rep(Alpha, 1, 2)>>,
       <<Rep(Alpha, 2, 3), One({"-"}), Rep(Digits, 3, 5)>>,
       <<Rep(Digits, 2, 3), One({"-"}), Rep(Digits, 3, 3)>>,
       <<Rep(Digits, 12, 13)>>,
       <<Rep(Digits, 3, 3), One({"-"}), Rep(Digits, 3, 3), One({"-"}),
         Rep(Digits, 4, 4)>> >>

\* re.match of an anchored pattern (^...$): pieces i.. of the pattern
\* against the characters j.. of the text
RECURSIVE re_match_from(_, _, _, _)
re_match_from(pattern, i, text, j) ==
    IF i > Len(pattern) THEN j = Len(text) + 1
    ELSE \E n \in pattern[i].min..pattern[i].max :
             /\ j + n - 1 <= Len(text)
             /\ \A k \in j..(j + n - 1) : text[k] \in pattern[i].class
             /\ re_match_from(pattern, i + 1, text, j + n)

re_match(pattern, text) == re_match_from(pattern, 1, text, 1)

\* sum(c.isalpha() for c in text), sum(c.isdigit() for c in text)
count_in(text, class) == Cardinality({k \in 1..Len(text) : text[k] \in class})

\* lines 439-446: alphanumeric with a good mix of letters and numbers
good_mix(text) ==
    /\ re_match(<<Rep(Alpha \cup Digits, 1, Len(text))>>, text)
    /\ LET letters == count_in(text, Alpha)
           numbers == count_in(text, Digits)
       IN  /\ letters >= 2
           /\ numbers >= 2
           /\ 5 * letters >= Len(text)
           /\ 5 * letters <= 4 * Len(text)

is_model_number(raw) ==
    LET text == str_remove(strip(raw), " ")
    IN  IF text = <<>> \/ Len(text) < 3 THEN FALSE
        ELSE IF \E p \in 1..Len(patterns) : re_match(patterns[p], text)
        THEN TRUE
        ELSE good_mix(text)

SM_G970F == <<"S", "M", "-", "G", "9", "7", "0", "F">>

RTX3080 == <<"R", "T", "X", "3", "0", "8", "0">>

ABC_123 == <<"A", "B", "C", "-", "1", "2", "3">>

the == <<"t", "h", "e">>

\* the texts of the documentation, and every short text of letters, digits,
\* hyphens and spaces
ModelTexts ==
    {SM_G970F, RTX3080, ABC_123, the, <<"S", "M", "-", "G", "9", "7", "0">>}
        \cup SeqsUpTo({"a", "B", "1", "-", " "}, MaxTextLen)

InitModelNumber ==
    /\ fn_pc = "ready"
    /\ fn_in \in ModelTexts
    /\ fn_out = NoneVal
    /\ RgIdle
    /\ PfIdle
    /\ MainIdle

ReturnModelNumber ==
    /\ fn_pc = "ready"
    /\ fn_out' = is_model_number(fn_in)
    /\ fn_pc' = "done"
    /\ UNCHANGED fn_in
    /\ UNCHANGED <<rgVars, pfVars, mainVars>>

NextModelNumber == ReturnModelNumber

SpecModelNumber == InitModelNumber /\ [][NextModelNumber]_vars

-----------------------------------------------------------------------------
(* Claims about _is_model_number (SpecModelNumber) *)

\* C24: "SM-G970F", "RTX3080" and "ABC-123" are classified as model-number-
\* like; "the" and every text shorter than 3 characters once its spaces are
\* removed (such as "ab") are rejected.
C24_ModelNumberExamples ==
    fn_pc = "done" =>
        /\ fn_in \in {SM_G970F, RTX3080, ABC_123} => fn_out = TRUE
        /\ fn_in = the => fn_out = FALSE
        /\ Len(str_remove(fn_in, " ")) < 3 => fn_out = FALSE


-----------------------------------------------------------------------------
(* ImageProcessor.process_images: the loop over the images of one item *)

MaxImages == 3

\* what stops the work on one image before its text is read: a status
\* other than 200, or an exception of the download, of Image.open, of
\* pil_image.save or of the OpenCV and tesseract calls
ImageFailures ==
    {"http_error", "download_raises", "decode_raises", "save_raises",
     "ocr_raises"}

\* what one image can meet: a failure, or the text OCR reads in it
ImageOutcomes ==
    [kind : ImageFailures] \cup [kind : {"ocr"}, ocr : OcrOutcomes]

\* the failures that happen before the image file is written
before_save(outcome) ==
    outcome.kind \in {"http_error", "download_raises", "decode_raises",
                      "save_raises"}

\* the collections of lines 46-49, with the index of the next image and
\* the images written to disk
loop_start(item) ==
    [item |-> item, i |-> 1, saved |-> {}, ocr_texts |-> <<>>,
     brands_found |-> {}]

\* mutant: the exception of one image leaves the loop
image_step_raising(st, n, outcome) ==
    IF outcome.kind \in ImageFailures \ {"http_error"}
    THEN [st EXCEPT !.i = n + 1]
    ELSE IF outcome.kind = "http_error" THEN [st EXCEPT !.i = @ + 1]
    ELSE IF (st.i = n /\ n > 1) \/ outcome.ocr.text = <<>>
    THEN [st EXCEPT !.i = @ + 1, !.saved = @ \cup {st.i}]
    ELSE [st EXCEPT !.i = @ + 1, !.saved = @ \cup {st.i},
                    !.ocr_texts = Append(@, outcome.ocr.text),
                    !.brands_found = @ \cup outcome.ocr.brands]

\* lines 93-218: one iteration of the loop over the n images; `continue`
\* and the except branch both go on with the next image
image_step(st, n, outcome) ==
    IF before_save(outcome) THEN [st EXCEPT !.i = @ + 1]
    ELSE IF \/ st.i = n /\ n > 1
            \/ outcome.kind = "ocr_raises"
            \/ outcome.ocr.text = <<>>
    THEN [st EXCEPT !.i = @ + 1, !.saved = @ \cup {st.i}]
    ELSE [st EXCEPT !.i = @ + 1, !.saved = @ \cup {st.i},
                    !.ocr_texts = Append(@, outcome.ocr.text),
                    !.brands_found = @ \cup outcome.ocr.brands]

\* ' '.join(texts)
RECURSIVE join(_)
join(texts) ==
    IF texts = <<>> THEN <<>>
    ELSE IF Len(texts) = 1 THEN texts[1]
    ELSE texts[1] \o <<" ">> \o join(Tail(texts))

\* lines 220-308: the item with what the loop collected
loop_end(st) ==
    [st EXCEPT !.item =
        process_images(st.item, [text |-> join(st.ocr_texts),
                                 brands |-> st.brands_found])]

ImageItems ==
    {new_item("url", d, <<>>, n) : d \in ItemDescriptions, n \in 0..MaxImages}

InitImages ==
    /\ fn_pc = "ready"
    /\ fn_in \in {in \in [item : ImageItems,
                          outcomes : SeqsUpTo(ImageOutcomes, MaxImages)] :
                     Len(in.outcomes) = in.item.images}
    /\ fn_out = NoneVal
    /\ RgIdle
    /\ PfIdle
    /\ MainIdle

\* lines 31-49: an item without images is returned at once
ImagesStart ==
    /\ fn_pc = "ready"
    /\ fn_out' = loop_start(fn_in.item)
    /\ fn_pc' = IF fn_in.item.images = 0 THEN "done" ELSE "loop"
    /\ UNCHANGED fn_in
    /\ UNCHANGED <<rgVars, pfVars, mainVars>>

ImagesStep ==
    /\ fn_pc = "loop"
    /\ fn_out.i <= fn_in.item.images
    /\ fn_out' = image_step(fn_out, fn_in.item.images, fn_in.outcomes[fn_out.i])
    /\ UNCHANGED <<fn_pc, fn_in>>
    /\ UNCHANGED <<rgVars, pfVars, mainVars>>

ImagesReturn ==
    /\ fn_pc = "loop"
    /\ fn_out.i > fn_in.item.images
    /\ fn_out' = loop_end(fn_out)
    /\ fn_pc' = "done"
    /\ UNCHANGED fn_in
    /\ UNCHANGED <<rgVars, pfVars, mainVars>>

NextImages == ImagesStart \/ ImagesStep \/ ImagesReturn

SpecImages == InitImages /\ [][NextImages]_vars

-----------------------------------------------------------------------------
(* Claims about process_images (SpecImages) *)

\* image k of n is one whose text is read
read_by_ocr(n, k) == n = 1 \/ k < n

\* the texts of the images that met no failure, in the order of the images
RECURSIVE texts_read(_, _)
texts_read(outcomes, k) ==
    IF k > Len(outcomes) THEN <<>>
    ELSE IF /\ outcomes[k].kind = "ocr"
            /\ outcomes[k].ocr.text # <<>>
            /\ read_by_ocr(Len(outcomes), k)
    THEN <<outcomes[k].ocr.text>> \o texts_read(outcomes, k + 1)
    ELSE texts_read(outcomes, k + 1)

\* C25: a download, decode, save or OCR failure on one image is caught,
\* adds nothing for that image and does not keep the other images from
\* being processed; the item is always returned, and with at least one
\* image URL it has enhanced_description, ocr_brands and ocr_model_numbers.
C25_ImageFailuresContained ==
    fn_pc = "done" =>
        LET n == fn_in.item.images
            item == fn_out.item
        IN  /\ item.itemUrl = fn_in.item.itemUrl
            /\ item.description = fn_in.item.description
            /\ fn_out.ocr_texts = texts_read(fn_in.outcomes, 1)
            /\ fn_out.saved =
                   {k \in 1..n : ~before_save(fn_in.outcomes[k])}
            /\ n >= 1 =>
                   /\ fn_out.i = n + 1
                   /\ item.enhanced_description # Absent
                   /\ item.ocr_brands # Absent
                   /\ item.ocr_model_numbers # Absent

\* the download of the first of three images raised, the text of the
\* second was read, and the item has its three fields
C25_Witness ==
    /\ fn_pc = "done"
    /\ fn_in.item.images = 3
    /\ fn_in.outcomes[1].kind = "download_raises"
    /\ fn_in.outcomes[2].kind = "ocr"
    /\ fn_in.outcomes[3].kind = "ocr_raises"
    /\ fn_out.ocr_texts = <<fn_in.outcomes[2].ocr.text>>
    /\ fn_out.ocr_texts # <<<<>>>>
    /\ fn_out.saved = {2, 3}
    /\ fn_out.item.ocr_brands = [kind |-> "list", val |-> {"sony"}]
    /\ fn_out.item.enhanced_description # Absent


-----------------------------------------------------------------------------
(* Claims about get_best_market_price, continued (SpecPrice) *)

\* the LLM stage answered and flagged the item as not identified
flagged_insufficient ==
    /\ pf_cfg.OPENROUTER_ENABLED
    /\ llm_results.kind = "result"
    /\ llm_results.insufficient_identification

\* C26: get_best_market_price returns 0.0 only when the LLM stage flagged
\* insufficient identification or no non-empty search query could be
\* chosen; the web price, the e-commerce price, the keyword estimate and
\* the catch-all default are all strictly positive.
C26_ZeroOnlyWithoutQuery ==
    pf_pc = "done" =>
        /\ pf_ret.kind = "num"
        /\ pf_ret.val >= 0
        /\ pf_ret.val = 0 => flagged_insufficient \/ ~Truthy(search_query)
        /\ (Called("web") \/ Called("estimate") \/ "chain" \in pf_exc)
               => pf_ret.val > 0

\* the search sources found nothing, the estimate could not be computed,
\* and the catch-all default was returned
C26_Witness ==
    /\ pf_pc = "done"
    /\ Called("web")
    /\ Called("amazon")
    /\ ~is_positive(google_price)
    /\ ~is_positive(amazon_price)
    /\ "chain" \in pf_exc
    /\ pf_ret = Num(DefaultFallbackPrice)


-----------------------------------------------------------------------------
(* Claims about a run of main(), continued (Spec) *)

\* the steps of process_all_items inside its try block
InTryBlock == pc \in {"setup_browser", "analyze", "get_item_urls", "loop"}

-----------------------------------------------------------------------------
(* AuctionBot.process_all_items: the loop over the item URLs of a page with
   up to more than MAX_ITEMS links *)

\* how many links more than MAX_ITEMS the auction page can have
MaxExtraUrls == 1

\* the pages: the number of their item links, and which of the item pages
\* cannot be extracted: none (0), or every one whose number is a multiple
\* of fails_every
LoopPages == [links : 0..(MAX_ITEMS + MaxExtraUrls), fails_every : 0..3]

extraction_fails(page, url) ==
    page.fails_every > 0 /\ url % page.fails_every = 0

\* what the iteration for one URL meets on a page
item_outcome(page, url) ==
    IF extraction_fails(page, url) THEN [kind |-> "not_extracted"]
    ELSE [kind |-> "extracted", description |-> <<"tv">>, bid |-> <<>>,
          images |-> 1, ocr |-> [text |-> <<>>, brands |-> {}]]

InitLoop ==
    /\ fn_pc = "ready"
    /\ fn_in \in LoopPages
    /\ fn_out = NoneVal
    /\ RgIdle
    /\ PfIdle
    /\ MainIdle

\* lines 225-240: the item URLs of the page, limited to MAX_ITEMS; without
\* URLs process_all_items returns
LoopStart ==
    /\ fn_pc = "ready"
    /\ LET urls == get_item_urls([kind |-> "dict", roles |-> SelectorRoles],
                                 fn_in.links, FALSE)
       IN  IF urls = <<>>
           THEN /\ fn_out' = [item_urls |-> urls, url_i |-> 1, items |-> <<>>]
                /\ fn_pc' = "done"
           ELSE /\ fn_out' = [item_urls |-> limit_to_max_items(urls),
                              url_i |-> 1, items |-> <<>>]
                /\ fn_pc' = "loop"
    /\ UNCHANGED fn_in
    /\ UNCHANGED <<rgVars, pfVars, mainVars>>

\* lines 241-265: one iteration
LoopItem ==
    /\ fn_pc = "loop"
    /\ fn_out.url_i <= Len(fn_out.item_urls)
    /\ LET url == fn_out.item_urls[fn_out.url_i]
           out == item_outcome(fn_in, url)
           item == extract_item_details(url, out)
       IN  fn_out' = [fn_out EXCEPT
                          !.items = accumulate(@, item,
                                               IF item = NoneVal THEN NoneVal
                                               ELSE out.ocr),
                          !.url_i = @ + 1]
    /\ UNCHANGED <<fn_pc, fn_in>>
    /\ UNCHANGED <<rgVars, pfVars, mainVars>>

\* lines 267-268: the end of the loop
LoopReturn ==
    /\ fn_pc = "loop"
    /\ fn_out.url_i > Len(fn_out.item_urls)
    /\ fn_pc' = "done"
    /\ UNCHANGED <<fn_in, fn_out>>
    /\ UNCHANGED <<rgVars, pfVars, mainVars>>

NextLoop == LoopStart \/ LoopItem \/ LoopReturn

SpecLoop == InitLoop /\ [][NextLoop]_vars

-----------------------------------------------------------------------------
(* Claims about the loop over the item URLs (SpecLoop) *)

\* the number of item URLs the loop has visited
visited == fn_out.url_i - 1

\* C29: the number of accumulated items is at most the number of item URLs
\* already visited, which is at most MAX_ITEMS; an item is appended only
\* after its extraction succeeded and its image processing returned, and
\* the items already appended are never removed or reordered.
C29_ItemsBounded ==
    /\ [](fn_pc \in {"loop", "done"} =>
              /\ Len(fn_out.items) <= visited
              /\ visited <= Len(fn_out.item_urls)
              /\ visited <= MAX_ITEMS)
    /\ [][fn_pc = "loop" =>
              LET old == fn_out.items
                  new == fn_out'.items
              IN  /\ Len(new) \in {Len(old), Len(old) + 1}
                  /\ SubSeq(new, 1, Len(old)) = old
                  /\ Len(new) = Len(old) + 1 =>
                         /\ fn_out'.url_i = fn_out.url_i + 1
                         /\ ~extraction_fails(fn_in, fn_out.item_urls[fn_out.url_i])
                         /\ new[Len(new)].itemUrl = fn_out.item_urls[fn_out.url_i]
                         /\ new[Len(new)].enhanced_description # Absent]_vars

\* the page had more than MAX_ITEMS links, MAX_ITEMS of them were visited,
\* and every second one gave no item
C29_Witness ==
    /\ fn_pc = "done"
    /\ fn_in.links > MAX_ITEMS
    /\ fn_in.fails_every = 2
    /\ Len(fn_out.item_urls) = MAX_ITEMS
    /\ visited = MAX_ITEMS
    /\ Len(fn_out.items) = MAX_ITEMS \div 2

=============================================================================
